---- MODULE Spec2Model ----
(***************************************************************************)
(* x32_osc_state: the console state machine (X32Console), the fader bank   *)
(* and the console protocol interpreter, as a state machine.               *)
(*                                                                         *)
(* Conventions                                                             *)
(*   Option<T>      None is <<>>, Some(x) is <<x>>.                        *)
(*   String         a TLA+ string; characters are read with SubSeq.        *)
(*   f32 level      an integer number of ten-thousandths (0.7498 is 7498). *)
(*   panic          an operation that panics sets panicked and the process *)
(*                  takes no further step.                                 *)
(*   overflow_checks  the build profile: TRUE for a build with integer     *)
(*                  overflow checks (dev/test), FALSE for one without      *)
(*                  (release); usize subtraction panics or wraps.          *)
(***************************************************************************)
EXTENDS Integers, Sequences, FiniteSets, TLC

VARIABLES faders, cues, snippets, scenes, show_mode, current_cue,
          result, panicked, op, overflow_checks, steps

vars == <<faders, cues, snippets, scenes, show_mode, current_cue,
          result, panicked, op, overflow_checks, steps>>

(***************************************************************************)
(* Bounds of the exploration.                                              *)
(***************************************************************************)
\* calls followed in a show session and in a fader session
MaxSteps == 4
\* calls followed when every input is offered
WideSteps == 2

(***************************************************************************)
(* Program constants.                                                      *)
(***************************************************************************)
CueCap == 500
SceneCap == 100
SnippetCap == 100
MainCap == 2
MatrixCap == 6
AuxCap == 8
DcaCap == 8
BusCap == 16
ChannelCap == 32

None == <<>>
Some(x) == <<x>>
IsSome(o) == Len(o) = 1
Unwrap(o) == o[1]

(***************************************************************************)
(* Strings.                                                                *)
(***************************************************************************)
CharAt(s, i) == SubSeq(s, i, i)

IsDigit(c) == c \in {"0", "1", "2", "3", "4", "5", "6", "7", "8", "9"}

DigitVal(c) ==
    CASE c = "0" -> 0 [] c = "1" -> 1 [] c = "2" -> 2 [] c = "3" -> 3
      [] c = "4" -> 4 [] c = "5" -> 5 [] c = "6" -> 6 [] c = "7" -> 7
      [] c = "8" -> 8 [] c = "9" -> 9

DigitChar(d) == CharAt("0123456789", d + 1)

AllDigits(s) == Len(s) > 0 /\ \A i \in 1..Len(s) : IsDigit(CharAt(s, i))

RECURSIVE DigitsVal(_, _)
DigitsVal(s, acc) ==
    IF Len(s) = 0 THEN acc
    ELSE DigitsVal(Tail(s), acc * 10 + DigitVal(Head(s)))

\* str::parse::<usize>: an optional '+', then one or more digits
parse_usize(s) ==
    LET body == IF Len(s) > 0 /\ Head(s) = "+" THEN Tail(s) ELSE s
    IN  IF AllDigits(body) THEN Some(DigitsVal(body, 0)) ELSE None

\* the checked accumulation of str::parse::<i32>: digits are added for a
\* positive number and subtracted for a negative one; None on overflow
RECURSIVE CheckedDigits(_, _, _)
CheckedDigits(s, acc, neg) ==
    IF Len(s) = 0 THEN Some(acc)
    ELSE LET d == DigitVal(Head(s))
         IN  IF neg
             THEN (IF 0 - acc > (2147483647 - (IF d = 0 THEN 0 ELSE d - 1)) \div 10
                   THEN None
                   ELSE CheckedDigits(Tail(s), acc * 10 - d, neg))
             ELSE (IF acc > (2147483647 - d) \div 10 THEN None
                   ELSE CheckedDigits(Tail(s), acc * 10 + d, neg))

\* str::parse::<i32>: an optional '+' or '-', then one or more digits
parse_i32(s) ==
    LET neg  == Len(s) > 0 /\ Head(s) = "-"
        body == IF Len(s) > 0 /\ Head(s) \in {"+", "-"} THEN Tail(s) ELSE s
    IN  IF AllDigits(body) THEN CheckedDigits(body, 0, neg) ELSE None

\* format!("{d:02}") for a usize
Fmt02(d) ==
    IF d < 10 THEN "0" \o DigitChar(d)
    ELSE IF d < 100 THEN DigitChar(d \div 10) \o DigitChar(d % 10)
    ELSE DigitChar(d \div 100) \o DigitChar((d \div 10) % 10) \o DigitChar(d % 10)

\* String::insert(idx, ch)
StrInsert(s, idx, ch) == SubSeq(s, 1, idx) \o ch \o SubSeq(s, idx + 1, Len(s))

(***************************************************************************)
(* usize arithmetic.  A usize of 2^63 or more is held as the negative      *)
(* number with the same 64 bits (usize::MAX is -1), so a wrapped value is  *)
(* outside every array and above every other value.                        *)
(***************************************************************************)
\* a - b on usize, 0 <= a, b < 2^63: panics with overflow checks, wraps without
usize_sub(a, b, oc) ==
    IF a >= b THEN [panic |-> FALSE, v |-> a - b]
    ELSE IF oc THEN [panic |-> TRUE, v |-> 0]
    ELSE [panic |-> FALSE, v |-> a - b]

\* a + b on usize, 0 <= b < 2^63: panics with overflow checks, wraps without.
\* A sum above 2^31 - 1 stands as 2^31 - 1: it is only compared with lengths
\* of buffers, and is above every one of them.
usize_add(a, b, oc) ==
    IF a < 0 /\ a + b >= 0
    THEN (IF oc THEN [panic |-> TRUE, v |-> 0] ELSE [panic |-> FALSE, v |-> a + b])
    ELSE IF a > 2147483647 - b THEN [panic |-> FALSE, v |-> 2147483647]
    ELSE [panic |-> FALSE, v |-> a + b]

\* a < b on usize
usize_lt(a, b) == IF (a < 0) = (b < 0) THEN a < b ELSE b < 0

(***************************************************************************)
(* enums: ShowMode, FaderIndex, FaderColor                                 *)
(***************************************************************************)
ShowModes == {"Cues", "Scenes", "Snippets"}

ShowMode_from_int(v) ==
    CASE v = 1 -> "Scenes"
      [] v = 2 -> "Snippets"
      [] OTHER -> "Cues"

ShowMode_from_const(v) ==
    CASE v = "SCENES" -> "Scenes"
      [] v = "SNIPPETS" -> "Snippets"
      [] OTHER -> "Cues"

FaderCats == {"Aux", "Matrix", "Main", "Channel", "Dca", "Bus"}

FaderIndex(cat, pos) == [cat |-> cat, pos |-> pos]
FaderIndex_Unknown == [cat |-> "Unknown", pos |-> 0]

FaderIndex_get_index(f) == IF f.cat = "Unknown" THEN 0 ELSE f.pos

FaderIndex_default_label(f) ==
    CASE f.cat = "Aux" -> "Aux" \o Fmt02(f.pos)
      [] f.cat = "Matrix" -> "Mtx" \o Fmt02(f.pos)
      [] f.cat = "Main" -> IF f.pos = 2 THEN "M/C" ELSE "Main"
      [] f.cat = "Channel" -> "Ch" \o Fmt02(f.pos)
      [] f.cat = "Dca" -> "DCA" \o DigitChar(f.pos)
      [] f.cat = "Bus" -> "MixBus" \o Fmt02(f.pos)
      [] OTHER -> ""

FaderColor_default == "White"

FaderColor_parse_int(v) ==
    CASE v = 1 -> "Red" [] v = 2 -> "Green" [] v = 3 -> "Yellow"
      [] v = 4 -> "Blue" [] v = 5 -> "Magenta" [] v = 6 -> "Cyan"
      [] v = 7 -> "White" [] v = 9 -> "RedInverted"
      [] v = 10 -> "GreenInverted" [] v = 11 -> "YellowInverted"
      [] v = 12 -> "BlueInverted" [] v = 13 -> "MagentaInverted"
      [] v = 14 -> "CyanInverted" [] v = 15 -> "WhiteInverted"
      [] OTHER -> "Off"

FaderColor_parse_str(v) ==
    CASE v \in {"OFF", "OFFi"} -> "Off"
      [] v = "RD" -> "Red" [] v = "GN" -> "Green" [] v = "YE" -> "Yellow"
      [] v = "BL" -> "Blue" [] v = "MG" -> "Magenta" [] v = "CY" -> "Cyan"
      [] v = "RDi" -> "RedInverted" [] v = "GNi" -> "GreenInverted"
      [] v = "YEi" -> "YellowInverted" [] v = "BLi" -> "BlueInverted"
      [] v = "MGi" -> "MagentaInverted" [] v = "CYi" -> "CyanInverted"
      [] v = "WHi" -> "WhiteInverted"
      [] OTHER -> "White"

(***************************************************************************)
(* Fader and FaderUpdate                                                   *)
(***************************************************************************)
FaderUpdate(source, label, level, is_on, color) ==
    [source |-> source, label |-> label, level |-> level,
     is_on |-> is_on, color |-> color]

FaderUpdate_default == FaderUpdate(FaderIndex_Unknown, None, None, None, None)

Fader_new(source) ==
    [source |-> source, color |-> FaderColor_default, label |-> "",
     level |-> 0, is_on |-> FALSE]

Fader_name(f) ==
    IF f.label = "" THEN FaderIndex_default_label(f.source) ELSE f.label

\* Fader::update written as a full overwrite: an absent field takes the
\* constructor's value
Fader_update_overwrite(f, update) ==
    [f EXCEPT
        !.level = IF IsSome(update.level) THEN Unwrap(update.level) ELSE 0,
        !.is_on = IF IsSome(update.is_on) THEN Unwrap(update.is_on) ELSE FALSE,
        !.label = IF IsSome(update.label) THEN Unwrap(update.label) ELSE "",
        !.color = IF IsSome(update.color) THEN Unwrap(update.color) ELSE "White"]

Fader_update(f, update) ==
    [f EXCEPT
        !.level = IF IsSome(update.level) THEN Unwrap(update.level) ELSE @,
        !.is_on = IF IsSome(update.is_on) THEN Unwrap(update.is_on) ELSE @,
        !.label = IF IsSome(update.label) THEN Unwrap(update.label) ELSE @,
        !.color = IF IsSome(update.color) THEN Unwrap(update.color) ELSE @]

Fader_is_on_from_string(v) == v = "ON"


(***************************************************************************)
(* Fader::level_from_string.  Decibel values are held in hundredths of a   *)
(* dB, levels in ten-thousandths; level tokens carry at most two           *)
(* fractional digits.                                                      *)
(***************************************************************************)
IsLvlChar(c) == IsDigit(c) \/ c \in {"+", "-", "."}

\* LVL_STRING, ^([+\-0-9.]+): the leading run of level characters
RECURSIVE LvlRun(_)
LvlRun(s) ==
    IF Len(s) > 0 /\ IsLvlChar(Head(s)) THEN Head(s) \o LvlRun(Tail(s)) ELSE ""

RECURSIVE DotPos(_, _)
DotPos(s, i) ==
    IF i > Len(s) THEN 0
    ELSE IF CharAt(s, i) = "." THEN i ELSE DotPos(s, i + 1)

DigitsOrEmpty(s) == \A i \in 1..Len(s) : IsDigit(CharAt(s, i))

\* str::parse::<f32> on a run of level characters, in hundredths: the value
\* of the integer part ip and the fraction part fp
parse_f32_parts(neg, ip, fp) ==
    IF DigitsOrEmpty(ip) /\ DigitsOrEmpty(fp) /\ Len(ip) + Len(fp) > 0
    THEN Some((IF neg THEN -1 ELSE 1)
                * (DigitsVal(ip, 0) * 100 + DigitsVal(SubSeq(fp \o "00", 1, 2), 0)))
    ELSE None

\* the unsigned text split at its first dot (dot = 0: no dot)
parse_f32_split(neg, body, dot) ==
    parse_f32_parts(neg,
        IF dot = 0 THEN body ELSE SubSeq(body, 1, dot - 1),
        IF dot = 0 THEN "" ELSE SubSeq(body, dot + 1, Len(body)))

parse_f32_unsigned(neg, body) == parse_f32_split(neg, body, DotPos(body, 1))

parse_f32(s) ==
    parse_f32_unsigned(Len(s) > 0 /\ Head(s) = "-",
        IF Len(s) > 0 /\ Head(s) \in {"+", "-"} THEN Tail(s) ELSE s)

\* f32::trunc of num / den, den > 0
TruncDiv(num, den) ==
    IF num >= 0 THEN num \div den ELSE 0 - ((0 - num) \div den)

\* f32::round of num / den (half away from zero), den > 0
RoundDiv(num, den) ==
    IF num >= 0 THEN (2 * num + den) \div (2 * den)
    ELSE 0 - ((2 * (0 - num) + den) \div (2 * den))

\* (f_lvl * 10000.0).round() / 10000.0 with f_lvl = (lvl * 1023.5).trunc() / 1023.0
\* and lvl = num / den
Fader_level_quantise(num, den) ==
    RoundDiv(TruncDiv(num * 2047, 2 * den) * 10000, 1023)

\* the match on the parsed decibel value d (hundredths), None for Err(_)
Fader_level_of_db(p, d) ==
    CASE ~IsSome(p) -> Fader_level_quantise(0, 1)
      [] IsSome(p) /\ d < -6000 -> Fader_level_quantise(d + 9000, 48000)
      [] IsSome(p) /\ d >= -6000 /\ d < -3000 -> Fader_level_quantise(d + 7000, 16000)
      [] IsSome(p) /\ d >= -3000 /\ d < -1000 -> Fader_level_quantise(d + 5000, 8000)
      [] OTHER -> Fader_level_quantise(d + 3000, 4000)

Fader_level_of_parse(p) == Fader_level_of_db(p, IF IsSome(p) THEN Unwrap(p) ELSE 0)

Fader_level_of_capture(level) ==
    IF level # "" THEN Fader_level_of_parse(parse_f32(level)) ELSE 0

Fader_level_from_string(input) ==
    IF SubSeq(input, 1, 3) = "-oo" THEN 0
    ELSE Fader_level_of_capture(LvlRun(input))

(***************************************************************************)
(* FaderBank: six fixed arrays of Fader, slots zero-based                  *)
(***************************************************************************)
FaderBank_new ==
    [main    |-> [i \in 0..(MainCap - 1)    |-> Fader_new(FaderIndex("Main", i + 1))],
     matrix  |-> [i \in 0..(MatrixCap - 1)  |-> Fader_new(FaderIndex("Matrix", i + 1))],
     bus     |-> [i \in 0..(BusCap - 1)     |-> Fader_new(FaderIndex("Bus", i + 1))],
     channel |-> [i \in 0..(ChannelCap - 1) |-> Fader_new(FaderIndex("Channel", i + 1))],
     aux     |-> [i \in 0..(AuxCap - 1)     |-> Fader_new(FaderIndex("Aux", i + 1))],
     dca     |-> [i \in 0..(DcaCap - 1)     |-> Fader_new(FaderIndex("Dca", i + 1))]]

BankFields == {"main", "matrix", "bus", "channel", "aux", "dca"}

\* FaderBank::reset with an update that carries no label
FaderBank_reset_keeps_label(bank) ==
    LET update == [FaderUpdate_default EXCEPT
                      !.level = Some(0),
                      !.is_on = Some(FALSE), !.color = Some("White")]
    IN  [k \in BankFields |->
            [i \in DOMAIN bank[k] |-> Fader_update(bank[k][i], update)]]

FaderBank_reset(bank) ==
    LET update == [FaderUpdate_default EXCEPT
                      !.label = Some(""), !.level = Some(0),
                      !.is_on = Some(FALSE), !.color = Some("White")]
    IN  [k \in BankFields |->
            [i \in DOMAIN bank[k] |-> Fader_update(bank[k][i], update)]]

\* the array of the bank a FaderIndex variant selects
BankFieldOf(cat) ==
    CASE cat = "Aux" -> "aux" [] cat = "Matrix" -> "matrix"
      [] cat = "Main" -> "main" [] cat = "Channel" -> "channel"
      [] cat = "Dca" -> "dca" [] cat = "Bus" -> "bus"

\* slice::get / slice::get_mut: the slot, when the index is inside the array
SliceGet(bank, field, index) ==
    IF index \in DOMAIN bank[field] THEN Some(<<field, index>>) ELSE None

\* FaderBank::get_mut that takes the 1-based index as the slot
FaderBank_get_mut_one_based(bank, f_type, oc) ==
    [panic |-> FALSE,
     slot  |-> IF f_type.cat = "Unknown" THEN None
               ELSE SliceGet(bank, BankFieldOf(f_type.cat), FaderIndex_get_index(f_type))]

\* the slot FaderBank::get_mut hands out, or None, or a panic
FaderBank_get_mut(bank, f_type, oc) ==
    LET index == usize_sub(FaderIndex_get_index(f_type), 1, oc)
    IN  IF index.panic THEN [panic |-> TRUE, slot |-> None]
        ELSE [panic |-> FALSE,
              slot  |-> IF f_type.cat = "Unknown" THEN None
                        ELSE SliceGet(bank, BankFieldOf(f_type.cat), index.v)]

\* FaderBank::get: a copy of the fader, or None, or a panic
FaderBank_get(bank, f_type, oc) ==
    LET index == usize_sub(FaderIndex_get_index(f_type), 1, oc)
        slot  == IF f_type.cat = "Unknown" THEN None
                 ELSE SliceGet(bank, BankFieldOf(f_type.cat), index.v)
    IN  IF index.panic THEN [panic |-> TRUE, fader |-> None]
        ELSE [panic |-> FALSE,
              fader |-> IF IsSome(slot)
                        THEN Some(bank[Unwrap(slot)[1]][Unwrap(slot)[2]])
                        ELSE None]

\* FaderBank::update that stores the updated fader in the first slot of the
\* array instead of the slot it was taken from
FaderBank_update_misplaced(bank, update, oc) ==
    LET r == FaderBank_get_mut(bank, update.source, oc)
    IN  IF r.panic THEN [panic |-> TRUE, bank |-> bank]
        ELSE IF IsSome(r.slot)
        THEN LET k == Unwrap(r.slot)[1]
                 i == Unwrap(r.slot)[2]
             IN  [panic |-> FALSE,
                  bank  |-> [bank EXCEPT ![k][0] = Fader_update(bank[k][i], update)]]
        ELSE [panic |-> FALSE, bank |-> bank]

\* FaderBank::update: the bank after the update
FaderBank_update(bank, update, oc) ==
    LET r == FaderBank_get_mut(bank, update.source, oc)
    IN  IF r.panic THEN [panic |-> TRUE, bank |-> bank]
        ELSE IF IsSome(r.slot)
        THEN LET k == Unwrap(r.slot)[1]
                 i == Unwrap(r.slot)[2]
             IN  [panic |-> FALSE,
                  bank  |-> [bank EXCEPT ![k][i] = Fader_update(@, update)]]
        ELSE [panic |-> FALSE, bank |-> bank]

\* the X32ProcessResult values
NoOperation == [kind |-> "NoOperation"]
ResFader(f) == [kind |-> "Fader", fader |-> f]
ResCurrentCue(s) == [kind |-> "CurrentCue", text |-> s]
ResMeters(v) == [kind |-> "Meters", meters |-> v]
ResQuery(o) == [kind |-> "Query", got |-> o]

\* what FaderBank::update returns to X32Console::update
FaderBank_update_result(bank, update, oc) ==
    LET r == FaderBank_get_mut(bank, update.source, oc)
        b == FaderBank_update(bank, update, oc).bank
    IN  IF ~r.panic /\ IsSome(r.slot)
        THEN ResFader(b[Unwrap(r.slot)[1]][Unwrap(r.slot)[2]])
        ELSE NoOperation


(***************************************************************************)
(* X32Console                                                              *)
(***************************************************************************)
ShowCue(cue_number, name, snippet, scene) ==
    [cue_number |-> cue_number, name |-> name,
     snippet |-> snippet, scene |-> scene]

X32Console_new ==
    [faders      |-> FaderBank_new,
     cues        |-> [i \in 0..(CueCap - 1) |-> None],
     snippets    |-> [i \in 0..(SnippetCap - 1) |-> None],
     scenes      |-> [i \in 0..(SceneCap - 1) |-> None],
     show_mode   |-> "Cues",
     current_cue |-> None]

\* the literal the Cue, Snippet and Scene arms compare the index with
UpdateIndexLimit == 500
\* the literals cue_name, scene_name and snip_name compare the index with
CueNameLimit == 500
SceneNameLimit == 100
SnipNameLimit == 100

scene_name(self, index) ==
    IF IsSome(index) /\ Unwrap(index) < SceneNameLimit
    THEN LET d == Unwrap(index)
         IN  IF IsSome(self.scenes[d])
             THEN Fmt02(d) \o ":" \o Unwrap(self.scenes[d])
             ELSE "--"
    ELSE "--"

snip_name(self, index) ==
    IF IsSome(index) /\ Unwrap(index) < SnipNameLimit
    THEN LET d == Unwrap(index)
         IN  IF IsSome(self.snippets[d])
             THEN Fmt02(d) \o ":" \o Unwrap(self.snippets[d])
             ELSE "--"
    ELSE "--"

\* cue_name with the snippet rendered before the scene
cue_name_swapped(self, index) ==
    IF IsSome(index) /\ Unwrap(index) < CueNameLimit
    THEN LET d == Unwrap(index)
         IN  IF IsSome(self.cues[d])
             THEN LET t == Unwrap(self.cues[d])
                  IN  t.cue_number \o " :: " \o t.name
                        \o " [" \o snip_name(self, t.snippet) \o "]"
                        \o " [" \o scene_name(self, t.scene) \o "]"
             ELSE "0.0.0 :: -- [--] [--]"
    ELSE "0.0.0 :: -- [--] [--]"

cue_name(self, index) ==
    IF IsSome(index) /\ Unwrap(index) < CueNameLimit
    THEN LET d == Unwrap(index)
         IN  IF IsSome(self.cues[d])
             THEN LET t == Unwrap(self.cues[d])
                  IN  t.cue_number \o " :: " \o t.name
                        \o " [" \o scene_name(self, t.scene) \o "]"
                        \o " [" \o snip_name(self, t.snippet) \o "]"
             ELSE "0.0.0 :: -- [--] [--]"
    ELSE "0.0.0 :: -- [--] [--]"

\* active_cue reading the cue list whatever the mode
active_cue_cues_only(self) ==
    CASE self.show_mode = "Cues" -> "Cue: " \o cue_name(self, self.current_cue)
      [] self.show_mode = "Scenes" -> "Scene: " \o cue_name(self, self.current_cue)
      [] self.show_mode = "Snippets" -> "Snippet: " \o cue_name(self, self.current_cue)

active_cue(self) ==
    CASE self.show_mode = "Cues" -> "Cue: " \o cue_name(self, self.current_cue)
      [] self.show_mode = "Scenes" -> "Scene: " \o scene_name(self, self.current_cue)
      [] self.show_mode = "Snippets" -> "Snippet: " \o snip_name(self, self.current_cue)

cue_list_size(self) ==
    <<Cardinality({i \in DOMAIN self.cues : IsSome(self.cues[i])}),
      Cardinality({i \in DOMAIN self.scenes : IsSome(self.scenes[i])}),
      Cardinality({i \in DOMAIN self.snippets : IsSome(self.snippets[i])})>>

\* clear_cues that clears the current pointer with the lists
clear_cues_and_pointer(self) ==
    [self EXCEPT !.cues     = [i \in 0..(CueCap - 1) |-> None],
                 !.snippets = [i \in 0..(SnippetCap - 1) |-> None],
                 !.scenes   = [i \in 0..(SceneCap - 1) |-> None],
                 !.current_cue = None]

clear_cues(self) ==
    [self EXCEPT !.cues     = [i \in 0..(CueCap - 1) |-> None],
                 !.snippets = [i \in 0..(SnippetCap - 1) |-> None],
                 !.scenes   = [i \in 0..(SceneCap - 1) |-> None]]

reset(self) ==
    [clear_cues(self) EXCEPT !.faders = FaderBank_reset(self.faders)]

\* ConsoleMessage values
MsgFader(u) == [kind |-> "Fader", fader |-> u]
MsgCue(index, cue_number, name, snippet, scene) ==
    [kind |-> "Cue", index |-> index, cue_number |-> cue_number,
     name |-> name, snippet |-> snippet, scene |-> scene]
MsgSnippet(index, name) == [kind |-> "Snippet", index |-> index, name |-> name]
MsgScene(index, name) == [kind |-> "Scene", index |-> index, name |-> name]
MsgCurrentCue(v) == [kind |-> "CurrentCue", cur |-> v]
MsgShowMode(v) == [kind |-> "ShowMode", mode |-> v]
MsgMeters(v) == [kind |-> "Meters", meters |-> v]

Outcome(self, res, panic) == [self |-> self, result |-> res, panic |-> panic]

\* a store that empties a slot which already holds the value
ArrayStore_toggle(self, field, index, value) ==
    IF index \in DOMAIN self[field]
    THEN Outcome([self EXCEPT ![field][index] = IF @ = value THEN None ELSE value],
                 NoOperation, FALSE)
    ELSE Outcome(self, NoOperation, TRUE)

\* arr[index] = value on a fixed array: a panic when index is outside it
ArrayStore(self, field, index, value) ==
    IF index \in DOMAIN self[field]
    THEN Outcome([self EXCEPT ![field][index] = value], NoOperation, FALSE)
    ELSE Outcome(self, NoOperation, TRUE)

\* X32Console::update with the display string taken before the assignment
X32Console_update_stale(self, update, oc) ==
    CASE update.kind = "Meters" -> Outcome(self, ResMeters(update.meters), FALSE)
      [] update.kind = "Fader" ->
            LET r == FaderBank_update(self.faders, update.fader, oc)
            IN  Outcome([self EXCEPT !.faders = r.bank],
                        FaderBank_update_result(self.faders, update.fader, oc),
                        r.panic)
      [] update.kind = "CurrentCue" ->
            LET s2 == [self EXCEPT !.current_cue =
                          IF update.cur < 0 THEN None ELSE Some(update.cur)]
            IN  Outcome(s2, ResCurrentCue(active_cue(self)), FALSE)
      [] update.kind = "ShowMode" ->
            LET s2 == [self EXCEPT !.show_mode = update.mode]
            IN  Outcome(s2, ResCurrentCue(active_cue(self)), FALSE)
      [] update.kind = "Cue" ->
            IF update.index <= UpdateIndexLimit
            THEN ArrayStore(self, "cues", update.index,
                     Some(ShowCue(update.cue_number, update.name,
                                  update.snippet, update.scene)))
            ELSE Outcome(self, NoOperation, FALSE)
      [] update.kind = "Snippet" ->
            IF update.index <= UpdateIndexLimit
            THEN ArrayStore(self, "snippets", update.index, Some(update.name))
            ELSE Outcome(self, NoOperation, FALSE)
      [] update.kind = "Scene" ->
            IF update.index <= UpdateIndexLimit
            THEN ArrayStore(self, "scenes", update.index, Some(update.name))
            ELSE Outcome(self, NoOperation, FALSE)

X32Console_update(self, update, oc) ==
    CASE update.kind = "Meters" -> Outcome(self, ResMeters(update.meters), FALSE)
      [] update.kind = "Fader" ->
            LET r == FaderBank_update(self.faders, update.fader, oc)
            IN  Outcome([self EXCEPT !.faders = r.bank],
                        FaderBank_update_result(self.faders, update.fader, oc),
                        r.panic)
      [] update.kind = "CurrentCue" ->
            LET s2 == [self EXCEPT !.current_cue =
                          IF update.cur < 0 THEN None ELSE Some(update.cur)]
            IN  Outcome(s2, ResCurrentCue(active_cue(s2)), FALSE)
      [] update.kind = "ShowMode" ->
            LET s2 == [self EXCEPT !.show_mode = update.mode]
            IN  Outcome(s2, ResCurrentCue(active_cue(s2)), FALSE)
      [] update.kind = "Cue" ->
            IF update.index <= UpdateIndexLimit
            THEN ArrayStore(self, "cues", update.index,
                     Some(ShowCue(update.cue_number, update.name,
                                  update.snippet, update.scene)))
            ELSE Outcome(self, NoOperation, FALSE)
      [] update.kind = "Snippet" ->
            IF update.index <= UpdateIndexLimit
            THEN ArrayStore(self, "snippets", update.index, Some(update.name))
            ELSE Outcome(self, NoOperation, FALSE)
      [] update.kind = "Scene" ->
            IF update.index <= UpdateIndexLimit
            THEN ArrayStore(self, "scenes", update.index, Some(update.name))
            ELSE Outcome(self, NoOperation, FALSE)

\* X32Console::fader: a query, the state is not changed
X32Console_fader(self, f_type, oc) ==
    LET r == FaderBank_get(self.faders, f_type, oc)
    IN  Outcome(self, ResQuery(r.fader), r.panic)


(***************************************************************************)
(* osc::Type and osc::Message                                              *)
(***************************************************************************)
TString(v) == [t |-> "String", str |-> v]
TInteger(v) == [t |-> "Integer", int |-> v]
TFloat(v) == [t |-> "Float", flt |-> v]
TBlob(v) == [t |-> "Blob", blob |-> v]
TBoolean(v) == [t |-> "Boolean", bool |-> v]
TNull == [t |-> "Null"]
TBang == [t |-> "Bang"]
TUnknown == [t |-> "Unknown"]

\* Message::new and add_item: force_empty_args is false
Message(address, args) ==
    [address |-> address, args |-> args, force_empty_args |-> FALSE]

\* Type::default_value: the enclosed value when the variant is the one the
\* default has, the default otherwise
Type_default_value(a, variant, default) ==
    CASE a.t = variant /\ variant = "Integer" -> a.int
      [] a.t = variant /\ variant = "Float" -> a.flt
      [] a.t = variant /\ variant = "String" -> a.str
      [] OTHER -> default

Message_first_default(msg, variant, default) ==
    IF Len(msg.args) > 0
    THEN Type_default_value(msg.args[1], variant, default)
    ELSE default

(***************************************************************************)
(* Results of the conversions: Ok(value), Err(error) or a panic            *)
(***************************************************************************)
Ok(v) == [tag |-> "Ok", val |-> v]
Err(e) == [tag |-> "Err", err |-> e]
Panic == [tag |-> "Panic"]
IsOk(r) == r.tag = "Ok"

InvalidFader == "X32(InvalidFader)"
UnimplementedPacket == "X32(UnimplementedPacket)"
MalformedPacket == "X32(MalformedPacket)"
InvalidTypeConversion == "OSC(InvalidTypeConversion)"
NotFourByte == "Packet(NotFourByte)"
InvalidMessage == "Packet(InvalidMessage)"
InvalidTypesForMessage == "Packet(InvalidTypesForMessage)"

(***************************************************************************)
(* FaderIndex and FaderUpdate parsing                                      *)
(***************************************************************************)
\* TryFrom<FaderIndexParse> for FaderIndex, the String(bank, index) form
FaderIndex_of(s, index) ==
             CASE index = 0 -> Err(InvalidFader)
               [] index # 0 /\ s = "mtx" /\ index <= 6 -> Ok(FaderIndex("Matrix", index))
               [] index # 0 /\ s = "auxin" /\ index <= 8 -> Ok(FaderIndex("Aux", index))
               [] index # 0 /\ s = "dca" /\ index <= 8 -> Ok(FaderIndex("Dca", index))
               [] index # 0 /\ s = "main" /\ index <= 2 -> Ok(FaderIndex("Main", index))
               [] index # 0 /\ s = "ch" /\ index <= 32 -> Ok(FaderIndex("Channel", index))
               [] index # 0 /\ s = "bus" /\ index <= 16 -> Ok(FaderIndex("Bus", index))
               [] OTHER -> Err(InvalidFader)

\* parsed is d.parse::<usize>(); "main" takes "m" for 2 and anything else for 1
FaderIndex_of_parsed(s, d, parsed) ==
    IF s # "main" /\ ~IsSome(parsed) THEN Err(InvalidFader)
    ELSE FaderIndex_of(s, IF s = "main" THEN (IF d = "m" THEN 2 ELSE 1)
                          ELSE Unwrap(parsed))

FaderIndex_try_from(s, d) == FaderIndex_of_parsed(s, d, parse_usize(d))

\* FaderUpdateParse values: form, bank, index and the one or two payloads
FaderUpdateParse(form, b, i, x, y) ==
    [form |-> form, b |-> b, i |-> i, x |-> x, y |-> y]

\* the FaderUpdate of a parse whose source converted to source
FaderUpdate_of_source(value, source) ==
    LET is_on  == CASE value.form = "NodeMix" -> Some(Fader_is_on_from_string(value.x))
                    [] value.form = "StdMute" -> Some(value.x = 1)
                    [] OTHER -> None
        level  == CASE value.form = "NodeMix" -> Some(Fader_level_from_string(value.y))
                    [] value.form = "StdFader" -> Some(value.x)
                    [] OTHER -> None
        label  == CASE value.form \in {"NodeConfig", "StdName"} -> Some(value.x)
                    [] OTHER -> None
        color  == CASE value.form = "NodeConfig" -> Some(FaderColor_parse_str(value.y))
                    [] value.form = "StdColor" -> Some(FaderColor_parse_int(value.x))
                    [] OTHER -> None
    IN  IF ~IsOk(source) THEN source
        ELSE Ok(FaderUpdate(source.val, label, level, is_on, color))

\* TryFrom<FaderUpdateParse> for FaderUpdate
FaderUpdate_try_from(value) ==
    FaderUpdate_of_source(value, FaderIndex_try_from(value.b, value.i))

(***************************************************************************)
(* ConsoleMessage: address splitting and the two matchers                  *)
(***************************************************************************)
RECURSIVE SplitSlash(_, _)
SplitSlash(s, cur) ==
    IF s = "" THEN <<cur>>
    ELSE IF Head(s) = "/" THEN <<cur>> \o SplitSlash(Tail(s), "")
    ELSE SplitSlash(Tail(s), cur \o Head(s))

NthOrEmpty(sp, n) == IF n <= Len(sp) THEN sp[n] ELSE ""

split_address(s) ==
    LET s1 == IF Len(s) > 0 /\ Head(s) = "/" THEN Tail(s) ELSE s
        sp == SplitSlash(s1, "")
    IN  <<NthOrEmpty(sp, 1), NthOrEmpty(sp, 2), NthOrEmpty(sp, 3), NthOrEmpty(sp, 4)>>

IsSpace(c) == c \in {" ", "\t", "\n", "\r"}

\* length of the leading run matching [^\s"]+
RECURSIVE BareRun(_)
BareRun(s) ==
    IF s = "" \/ IsSpace(Head(s)) \/ Head(s) = "\"" THEN 0
    ELSE 1 + BareRun(Tail(s))

\* position of the first double quote of s, 0 when there is none
RECURSIVE QuotePos(_, _)
QuotePos(s, i) ==
    IF i > Len(s) THEN 0
    ELSE IF CharAt(s, i) = "\"" THEN i ELSE QuotePos(s, i + 1)

\* NODE_STRING.captures_iter: the matches of [^\s"]+|"([^"]*)" in order;
\* q tells that group 1 (a quoted span) matched
RECURSIVE NodeCaptures(_)
NodeCaptures(s) ==
    IF s = "" THEN <<>>
    ELSE IF Head(s) = "\"" THEN
        LET close == QuotePos(Tail(s), 1)
        IN  IF close = 0 THEN NodeCaptures(Tail(s))
            ELSE <<[q |-> TRUE, s |-> SubSeq(Tail(s), 1, close - 1)]>>
                   \o NodeCaptures(SubSeq(Tail(s), close + 1, Len(Tail(s))))
    ELSE IF IsSpace(Head(s)) THEN NodeCaptures(Tail(s))
    ELSE LET n == BareRun(s)
         IN  <<[q |-> FALSE, s |-> SubSeq(s, 1, n)]>>
               \o NodeCaptures(SubSeq(s, n + 1, Len(s)))

split_node_msg(s) ==
    LET caps == NodeCaptures(s)
        isArg(i) == caps[i].q \/ i # 1
        RECURSIVE Args(_)
        Args(i) == IF i > Len(caps) THEN <<>>
                   ELSE (IF isArg(i) THEN <<caps[i].s>> ELSE <<>>) \o Args(i + 1)
    IN  [address |-> IF Len(caps) > 0 /\ ~caps[1].q THEN caps[1].s ELSE "",
         args    |-> Args(1)]

\* n as i16
as_i16(n) ==
    LET m == n % 65536
    IN  IF m >= 32768 THEN m - 65536 ELSE m

\* Vec<f32> of a blob: chunks_exact(4), each chunk kept as its four bytes
RECURSIVE ChunksExact4(_)
ChunksExact4(v) ==
    IF Len(v) < 4 THEN <<>>
    ELSE <<SubSeq(v, 1, 4)>> \o ChunksExact4(SubSeq(v, 5, Len(v)))

FaderResult(r) == IF IsOk(r) THEN Ok(MsgFader(r.val)) ELSE r

\* the match of try_from_standard_osc on the parts of the address
standard_osc_match(msg, parts) ==
    LET p1 == parts[1]
        p2 == parts[2]
        p3 == parts[3]
        p4 == parts[4]
    IN  CASE (p3 = "mix" /\ p4 = "fader") \/ (p1 = "dca" /\ p3 = "fader" /\ p4 = "") ->
                FaderResult(FaderUpdate_try_from(FaderUpdateParse("StdFader", p1, p2,
                    Message_first_default(msg, "Float", 0), "")))
          [] (p3 = "mix" /\ p4 = "on") \/ (p1 = "dca" /\ p3 = "on" /\ p4 = "") ->
                FaderResult(FaderUpdate_try_from(FaderUpdateParse("StdMute", p1, p2,
                    Message_first_default(msg, "Integer", 0), "")))
          [] p3 = "config" /\ p4 = "name" ->
                FaderResult(FaderUpdate_try_from(FaderUpdateParse("StdName", p1, p2,
                    Message_first_default(msg, "String", ""), "")))
          [] p3 = "config" /\ p4 = "color" ->
                FaderResult(FaderUpdate_try_from(FaderUpdateParse("StdColor", p1, p2,
                    Message_first_default(msg, "Integer", 1), "")))
          [] parts = <<"-show", "prepos", "current", "">> ->
                Ok(MsgCurrentCue(as_i16(Message_first_default(msg, "Integer", -1))))
          [] parts = <<"-prefs", "show_control", "", "">> ->
                Ok(MsgShowMode(ShowMode_from_int(Message_first_default(msg, "Integer", -1))))
          [] p1 = "meters" /\ p3 = "" /\ p4 = "" ->
                IF IsSome(parse_usize(p2)) /\ Len(msg.args) > 0 /\ msg.args[1].t = "Blob"
                THEN Ok(MsgMeters(<<Unwrap(parse_usize(p2)), ChunksExact4(msg.args[1].blob)>>))
                ELSE Err(UnimplementedPacket)
          [] OTHER -> Err(UnimplementedPacket)

try_from_standard_osc(msg) == standard_osc_match(msg, split_address(msg.address))

\* Ok(d) if d >= 0 => Some(d as usize), _ => None
LinkOf(tok) ==
    LET d == parse_i32(tok)
    IN  IF IsSome(d) /\ Unwrap(d) >= 0 THEN Some(Unwrap(d)) ELSE None

ShowfileIndex(p4) ==
    IF IsSome(parse_usize(p4)) THEN Unwrap(parse_usize(p4)) ELSE 0

\* the match of try_from_node on the parts of the address and the arguments
node_match(parts, args) ==
    LET arg_len == Len(args)
        p1 == parts[1]
        p2 == parts[2]
        p3 == parts[3]
        p4 == parts[4]
        isMix    == ((p3 = "mix" /\ p4 = "") \/ (p1 = "dca" /\ p3 = "" /\ p4 = ""))
                        /\ arg_len >= 2
        isConfig == ~isMix /\ p3 = "config" /\ p4 = "" /\ arg_len >= 1
        other    == ~isMix /\ ~isConfig
    IN  CASE isMix ->
                FaderResult(FaderUpdate_try_from(
                    FaderUpdateParse("NodeMix", p1, p2, args[1], args[2])))
          [] isConfig ->
                \* args[2] of a vector shorter than three panics
                IF arg_len < 3 THEN Panic
                ELSE FaderResult(FaderUpdate_try_from(
                        FaderUpdateParse("NodeConfig", p1, p2, args[1], args[3])))
          [] other /\ parts = <<"-show", "prepos", "current", "">> ->
                IF arg_len < 1 THEN Panic
                ELSE Ok(MsgCurrentCue(as_i16(
                        IF IsSome(parse_i32(args[1])) THEN Unwrap(parse_i32(args[1]))
                        ELSE -1)))
          [] other /\ parts = <<"-prefs", "show_control", "", "">> ->
                IF arg_len < 1 THEN Panic
                ELSE Ok(MsgShowMode(ShowMode_from_const(args[1])))
          [] other /\ p1 = "-show" /\ p2 = "showfile" /\ p3 = "cue" ->
                \* args[0], cue_number.len() - 2, args[3], args[4], args[1]
                IF arg_len < 5 \/ Len(args[1]) < 2 THEN Panic
                ELSE LET n1 == StrInsert(args[1], Len(args[1]) - 2, ".")
                         cue_number == StrInsert(n1, Len(n1) - 1, ".")
                     IN  Ok(MsgCue(ShowfileIndex(p4), cue_number, args[2],
                                   LinkOf(args[5]), LinkOf(args[4])))
          [] other /\ p1 = "-show" /\ p2 = "showfile" /\ p3 = "scene" ->
                IF arg_len < 1 THEN Panic
                ELSE Ok(MsgScene(ShowfileIndex(p4), args[1]))
          [] other /\ p1 = "-show" /\ p2 = "showfile" /\ p3 = "snippet" ->
                IF arg_len < 1 THEN Panic
                ELSE Ok(MsgSnippet(ShowfileIndex(p4), args[1]))
          [] OTHER -> Err(UnimplementedPacket)

node_split(sp) == node_match(split_address(sp.address), sp.args)

try_from_node(arg) == node_split(split_node_msg(arg))

\* TryFrom<Message> for ConsoleMessage
ConsoleMessage_try_from_Message(msg) ==
    IF msg.address = "node"
    THEN LET first == IF Len(msg.args) > 0 THEN msg.args[1] ELSE TUnknown
         IN  IF first.t = "String" THEN try_from_node(first.str)
             ELSE Err(InvalidTypeConversion)
    ELSE try_from_standard_osc(msg)

\* X32Console::process on the outcome of the conversion to a ConsoleMessage
process_converted(self, conv, oc) ==
    CASE conv.tag = "Panic" -> Outcome(self, NoOperation, TRUE)
      [] conv.tag = "Err" -> Outcome(self, NoOperation, FALSE)
      [] conv.tag = "Ok" -> X32Console_update(self, conv.val, oc)

\* X32Console::process of a Message
process_Message(self, msg, oc) ==
    process_converted(self, ConsoleMessage_try_from_Message(msg), oc)


(***************************************************************************)
(* osc::Buffer: a sequence of bytes.  Bytes of text are 0 (padding),       *)
(* printable ASCII, or 128 and above (not valid UTF-8 on their own).       *)
(***************************************************************************)
\* bytes 32..95 and 97..126; the grave accent (96) is left out of the text
AsciiLow ==
    " !\"#$%&'()*+,-./0123456789:;<=>?@ABCDEFGHIJKLMNOPQRSTUVWXYZ[\\]^_"
AsciiHigh == "abcdefghijklmnopqrstuvwxyz{|}~"

Chr(b) == IF b < 96 THEN CharAt(AsciiLow, b - 31) ELSE CharAt(AsciiHigh, b - 96)
Ord(c) ==
    IF \E i \in 1..Len(AsciiLow) : CharAt(AsciiLow, i) = c
    THEN 31 + (CHOOSE i \in 1..Len(AsciiLow) : CharAt(AsciiLow, i) = c)
    ELSE 96 + (CHOOSE i \in 1..Len(AsciiHigh) : CharAt(AsciiHigh, i) = c)

RECURSIVE as_bytes(_)
as_bytes(s) == IF s = "" THEN <<>> ELSE <<Ord(Head(s))>> \o as_bytes(Tail(s))

Zeros(n) == [i \in 1..n |-> 0]

\* padded_string_buffer that ends the text with one NUL and no padding
padded_string_buffer_one_nul(v) == as_bytes(v) \o <<0>>

padded_string_buffer(v) ==
    LET buffer  == as_bytes(v)
        len_act == Len(buffer)
        len_pad == 4 - (len_act % 4)
    IN  buffer \o Zeros(len_pad)

\* i32::to_be_bytes
i32_to_be_bytes(v) ==
    LET lo == v % 16777216
        hi == (v - lo) \div 16777216
    IN  <<hi % 256, lo \div 65536, (lo \div 256) % 256, lo % 256>>

\* i32::from_be_bytes
i32_from_be_bytes(b) ==
    (IF b[1] >= 128 THEN b[1] - 256 ELSE b[1]) * 16777216
        + b[2] * 65536 + b[3] * 256 + b[4]

RECURSIVE Pow2(_)
Pow2(n) == IF n = 0 THEN 1 ELSE 2 * Pow2(n - 1)

\* the odd part of a significand and the number of halvings that gives it
RECURSIVE OddPart(_, _)
OddPart(m, k) == IF m % 2 = 0 THEN OddPart(m \div 2, k + 1) ELSE <<m, k>>

\* f32::from_be_bytes in ten-thousandths; exact for the multiples of 1/16
f32_from_be_bytes(b) ==
    LET sign == b[1] \div 128
        e    == (b[1] % 128) * 2 + (b[2] \div 128)
        m    == (b[2] % 128) * 65536 + b[3] * 256 + b[4]
        odd  == OddPart(8388608 + m, 0)
        ex   == e - 150 + odd[2] + 4
        mag  == IF e = 0 THEN 0
                ELSE IF ex >= 0 THEN odd[1] * 625 * Pow2(ex)
                ELSE (odd[1] * 625) \div Pow2(0 - ex)
    IN  IF sign = 1 THEN 0 - mag ELSE mag

Buffer_is_valid(data) == Len(data) % 4 = 0

BufRes(res, data) == [res |-> res, data |-> data]

Drop(data, n) == SubSeq(data, n + 1, Len(data))

RECURSIVE GetStringLoop(_, _)
GetStringLoop(this_buffer, data) ==
    IF Len(this_buffer) > 0 /\ this_buffer[Len(this_buffer)] = 0
    THEN BufRes(Ok(this_buffer), data)
    ELSE IF Len(data) < 4 THEN BufRes(Err("UnterminatedString"), data)
    ELSE GetStringLoop(this_buffer \o SubSeq(data, 1, 4), Drop(data, 4))

Buffer_get_string(data) ==
    IF Len(data) = 0 THEN BufRes(Err("BufferUnderrun"), data)
    ELSE IF ~Buffer_is_valid(data) THEN BufRes(Err("NotFourByte"), data)
    ELSE GetStringLoop(<<>>, data)

Buffer_get_bytes(data, length) ==
    IF length = 0 THEN BufRes(Ok(<<>>), data)
    ELSE IF Len(data) = 0 THEN BufRes(Err("BufferUnderrun"), data)
    ELSE IF ~Buffer_is_valid(data) \/ length % 4 # 0 THEN BufRes(Err("NotFourByte"), data)
    ELSE IF Len(data) < length THEN BufRes(Err("BufferUnderrun"), data)
    ELSE BufRes(Ok(SubSeq(data, 1, length)), Drop(data, length))

\* get_next_byte_block; the declared size is an i32 cast to usize
Buffer_get_next_byte_block(data, oc) ==
    IF Len(data) < 4 THEN BufRes(Err("BufferUnderrun"), data)
    ELSE IF ~Buffer_is_valid(data) THEN BufRes(Err("NotFourByte"), data)
    ELSE LET len_act   == i32_from_be_bytes(SubSeq(data, 1, 4))
             len_tot   == IF len_act % 4 = 0 THEN [panic |-> FALSE, v |-> len_act]
                          ELSE usize_add(len_act, 4 - (len_act % 4), oc)
             chunk_tot == usize_add(len_tot.v, 4, oc)
         IN  IF len_tot.panic \/ chunk_tot.panic THEN BufRes(Panic, data)
             ELSE IF usize_lt(Len(data), chunk_tot.v)
             THEN BufRes(Err("BufferUnderrun"), data)
             ELSE BufRes(Ok(SubSeq(data, 1, chunk_tot.v)), Drop(data, chunk_tot.v))


(***************************************************************************)
(* Decoding: TryFrom<(&[u8], char)> for Type, TryFrom<Buffer> for Message  *)
(***************************************************************************)
TOpaque(variant, raw) == [t |-> variant, raw |-> raw]
TTypeList(v) == [t |-> "TypeList", list |-> v]

\* std::str::from_utf8 succeeds: no byte of 128 or more
IsUtf8(bytes) == \A i \in 1..Len(bytes) : bytes[i] < 128

\* the text of the bytes, NUL bytes left out
RECURSIVE StrOfBytes(_)
StrOfBytes(bytes) ==
    IF Len(bytes) = 0 THEN ""
    ELSE (IF Head(bytes) = 0 THEN "" ELSE Chr(Head(bytes))) \o StrOfBytes(Tail(bytes))

\* `*i as char` for the bytes after the first that are not 0
RECURSIVE TagChars(_)
TagChars(bytes) ==
    IF Len(bytes) = 0 THEN <<>>
    ELSE (IF Head(bytes) = 0 THEN <<>>
          ELSE IF Head(bytes) >= 32 /\ Head(bytes) < 127 /\ Head(bytes) # 96
          THEN <<Chr(Head(bytes))>> ELSE <<"?">>) \o TagChars(Tail(bytes))

\* char::from_u32 of the big-endian bytes succeeds
IsScalarValue(b) ==
    /\ b[1] = 0
    /\ b[2] <= 16
    /\ ~(b[2] = 0 /\ b[3] >= 216 /\ b[3] <= 223)

FixedTags == {"i", "f", "h", "d", "c", "r", "t"}

Type_try_from(bytes, flag, oc) ==
    LET n == Len(bytes)
    IN  IF n % 4 # 0 THEN Err("Packet(NotFourByte)")
        ELSE CASE flag = "T" /\ n = 0 -> Ok(TBoolean(TRUE))
               [] flag = "F" /\ n = 0 -> Ok(TBoolean(FALSE))
               [] flag = "N" /\ n = 0 -> Ok(TNull)
               [] flag = "I" /\ n = 0 -> Ok(TBang)
               [] flag = "," /\ n = 0 -> Ok(TTypeList(<<>>))
               [] flag = "i" /\ n = 4 -> Ok(TInteger(i32_from_be_bytes(bytes)))
               [] flag = "f" /\ n = 4 -> Ok(TFloat(f32_from_be_bytes(bytes)))
               [] flag = "h" /\ n = 8 -> Ok(TOpaque("LongInteger", bytes))
               [] flag = "d" /\ n = 8 -> Ok(TOpaque("Double", bytes))
               [] flag = "t" /\ n = 8 -> Ok(TOpaque("TimeTag", bytes))
               [] flag = "c" /\ n = 4 ->
                     IF IsScalarValue(bytes) THEN Ok(TOpaque("Char", bytes))
                     ELSE Err("OSC(ConvertFromString)")
               [] flag = "r" /\ n = 4 -> Ok(TOpaque("Color", bytes))
               [] (flag = "i" /\ n # 4) \/ (flag = "f" /\ n # 4)
                    \/ (flag = "c" /\ n # 4) \/ (flag = "r" /\ n # 4)
                    \/ (flag = "h" /\ n # 8) \/ (flag = "d" /\ n # 8)
                    \/ (flag = "t" /\ n # 8)
                    \/ (flag \notin (FixedTags \cup {"T", "F", "N", "I", ","}) /\ n = 0) ->
                     Err("Packet(Underrun)")
               [] flag \in {"T", "F", "N", "I"} /\ n # 0 -> Err("OSC(InvalidTypeFlag)")
               [] flag = "s" /\ n # 0 ->
                     IF IsUtf8(bytes) THEN Ok(TString(StrOfBytes(bytes)))
                     ELSE Err("OSC(ConvertFromString)")
               [] flag = "," /\ n # 0 -> Ok(TTypeList(TagChars(Tail(bytes))))
               [] flag = "b" /\ n # 0 ->
                     LET real_size == i32_from_be_bytes(SubSeq(bytes, 1, 4))
                         end_idx   == usize_add(real_size, 4, oc)
                     IN  IF end_idx.panic THEN Panic
                         ELSE IF ~usize_lt(n, end_idx.v)
                         THEN (IF end_idx.v < 4 THEN Panic   \* slice 4..end_idx
                               ELSE Ok(TBlob(SubSeq(bytes, 5, end_idx.v))))
                         ELSE Err("Packet(Underrun)")
               [] OTHER -> Err("OSC(InvalidTypeFlag)")

\* Type::try_from_buffer: the error of the read, or the conversion of its bytes
Type_try_from_buffer(item, flag, oc) ==
    IF item.tag = "Ok" THEN Type_try_from(item.val, flag, oc) ELSE item

\* Type::try_from_buffer on a read r, with the data the read leaves
Decoded(r, flag, oc) == BufRes(Type_try_from_buffer(r.res, flag, oc), r.data)

\* one argument of the type list: the read it takes and its conversion
DecodeArg(data, flag, oc) ==
    CASE flag \in {"i", "f", "c", "r"} -> Decoded(Buffer_get_bytes(data, 4), flag, oc)
      [] flag \in {"h", "d", "t"} -> Decoded(Buffer_get_bytes(data, 8), flag, oc)
      [] flag \in {"T", "F"} -> BufRes(Ok(TBoolean(flag = "T")), data)
      [] flag = "N" -> BufRes(Ok(TNull), data)
      [] flag = "I" -> BufRes(Ok(TBang), data)
      [] flag = "s" -> Decoded(Buffer_get_string(data), "s", oc)
      [] flag = "b" -> Decoded(Buffer_get_next_byte_block(data, oc), "b", oc)
      [] OTHER -> BufRes(Err("OSC(UnknownType)"), data)

\* the filter_map over the type list: the values that decoded, in order
RECURSIVE DecodeArgs(_, _, _)

\* .ok() of the item r, in front of the items after it
DecodePush(r, rest) ==
    [panic |-> rest.panic,
     args  |-> (IF r.res.tag = "Ok" THEN <<r.res.val>> ELSE <<>>) \o rest.args]

\* the item r of the head of types, then the tail on the data r leaves
DecodeNext(types, r, oc) ==
    IF r.res.tag = "Panic" THEN [panic |-> TRUE, args |-> <<>>]
    ELSE DecodePush(r, DecodeArgs(Tail(types), r.data, oc))

DecodeArgs(types, data, oc) ==
    IF Len(types) = 0 THEN [panic |-> FALSE, args |-> <<>>]
    ELSE DecodeNext(types, DecodeArg(data, Head(types), oc), oc)

\* the length check on the payload and the Message
Message_of_payload(osc_address, osc_types, payload) ==
    IF payload.panic THEN Panic
    ELSE IF Len(payload.args) # Len(osc_types) THEN Err(InvalidTypesForMessage)
    ELSE Ok([address |-> osc_address, args |-> payload.args,
             force_empty_args |-> Len(osc_types) = 0])

\* the second `if let` on types, the conversion of the type list read
Message_of_types(osc_address, types, data, oc) ==
    IF types.tag = "Ok" /\ types.val.t = "TypeList"
    THEN Message_of_payload(osc_address, types.val.list,
                            DecodeArgs(types.val.list, data, oc))
    ELSE Ok([address |-> osc_address, args |-> <<>>, force_empty_args |-> FALSE])

\* tl is the second data.next_string()
Message_of_type_read(osc_address, tl, oc) ==
    Message_of_types(osc_address, Type_try_from_buffer(tl.res, ",", oc), tl.data, oc)

\* the first `if let` on addr, the conversion of the address read
Message_of_address(addr, data, oc) ==
    IF addr.tag = "Ok" /\ addr.val.t = "String"
    THEN Message_of_type_read(addr.val.str, Buffer_get_string(data), oc)
    ELSE Err(InvalidMessage)

\* a is the first data.next_string()
Message_of_address_read(a, oc) ==
    Message_of_address(Type_try_from_buffer(a.res, "s", oc), a.data, oc)

Message_try_from_Buffer(data, oc) ==
    IF ~Buffer_is_valid(data) THEN Err(NotFourByte)
    ELSE Message_of_address_read(Buffer_get_string(data), oc)

\* msg.try_into() on the Message that decoded, the error otherwise
ConsoleMessage_of_decoded(msg) ==
    IF msg.tag = "Ok" THEN ConsoleMessage_try_from_Message(msg.val) ELSE msg

\* TryFrom<Buffer> for ConsoleMessage
ConsoleMessage_try_from_Buffer(value, oc) ==
    ConsoleMessage_of_decoded(Message_try_from_Buffer(value, oc))

\* X32Console::process of a Buffer
process_Buffer(self, value, oc) ==
    process_converted(self, ConsoleMessage_try_from_Buffer(value, oc), oc)


(***************************************************************************)
(* Inputs of the exploration                                               *)
(***************************************************************************)
NodeMsg(s) == Message("node", <<TString(s)>>)

\* values handed to X32Console::update directly
FaderUpdates ==
    { FaderUpdate(FaderIndex("Channel", 1), Some("Vox"), None, None, None),
      FaderUpdate(FaderIndex("Channel", 1), None, Some(7500), None, None),
      FaderUpdate(FaderIndex("Dca", 3), None, Some(4995), Some(TRUE), None),
      FaderUpdate(FaderIndex("Dca", 8), None, None, None, Some("Red")),
      FaderUpdate(FaderIndex("Channel", 33), Some("Far"), None, None, None),
      FaderUpdate(FaderIndex("Aux", 0), Some("Zero"), None, None, None),
      FaderUpdate_default }

CueUpdates ==
    { MsgCue(0, "1.0.0", "Cue Idx0 Num100", Some(0), Some(1)),
      MsgCue(499, "9.9.9", "Last", None, Some(100)),
      MsgCue(500, "5.0.0", "Edge", None, None),
      MsgCue(501, "5.0.1", "Past", None, None) }

SceneUpdates ==
    { MsgScene(1, "SceneAAA"), MsgScene(99, "Last"),
      MsgScene(100, "Edge"), MsgScene(501, "Past") }

SnippetUpdates ==
    { MsgSnippet(0, "Snip-001"), MsgSnippet(100, "Edge"), MsgSnippet(501, "Past") }

CurrentCueUpdates == { MsgCurrentCue(v) : v \in {-32768, -1, 0, 1, 499, 500, 32767} }

ShowModeUpdates == { MsgShowMode(v) : v \in ShowModes }

MeterUpdates == { MsgMeters(<<0, <<<<0, 0, 64, 63>>>>>>) }

UpdateInputs ==
    { MsgFader(u) : u \in FaderUpdates } \cup CueUpdates \cup SceneUpdates
        \cup SnippetUpdates \cup CurrentCueUpdates \cup ShowModeUpdates
        \cup MeterUpdates

\* the 32-bit integers sent with /-show/prepos/current
CurrentInts == {-2147483647 - 1, -65536, -32769, -32768, -1, 0, 1, 499,
                32767, 32768, 40000, 65536, 2147483647}

IntText(n) ==
    CASE n = -2147483647 - 1 -> "-2147483648" [] n = -65536 -> "-65536"
      [] n = -32769 -> "-32769" [] n = -32768 -> "-32768" [] n = -1 -> "-1"
      [] n = 0 -> "0" [] n = 1 -> "1" [] n = 499 -> "499" [] n = 32767 -> "32767"
      [] n = 32768 -> "32768" [] n = 40000 -> "40000" [] n = 65536 -> "65536"
      [] n = 2147483647 -> "2147483647"

StdCurrent(n) == Message("/-show/prepos/current", <<TInteger(n)>>)
NodeCurrent(n) == NodeMsg("/-show/prepos/current " \o IntText(n))

\* messages the conversion accepts
GoodMessages ==
    { Message("/ch/01/config/name", <<TString("Vox")>>),
      Message("/ch/01/mix/fader", <<TFloat(7500)>>),
      Message("/dca/3/on", <<TInteger(1)>>),
      Message("/dca/8/config/color", <<TInteger(1)>>),
      Message("/-prefs/show_control", <<TInteger(2)>>),
      Message("/meters/0", <<TBlob(<<0, 0, 64, 63>>)>>),
      NodeMsg("/-show/showfile/cue/000 100 \"Cue Idx0 Num100\" 1 1 0 0 1 0 0"),
      NodeMsg("/-show/showfile/cue/500 500 \"Edge\" 1 -1 -1 0 1 0 0"),
      NodeMsg("/-show/showfile/scene/001 \"SceneAAA\" \"aaa\" %111111110 1"),
      NodeMsg("/-show/showfile/scene/100 \"Edge\" \"aaa\" %111111110 1"),
      NodeMsg("/-show/showfile/snippet/000 \"Snip-001\" 1 1 0 32768 1 "),
      NodeMsg("/-prefs/show_control SNIPPETS"),
      NodeMsg("/-prefs/show_control SCENES"),
      NodeMsg("/dca/3 ON   -10.0"),
      NodeMsg("/ch/01/config \"Vox\" 1 RD 33") }
        \cup { StdCurrent(n) : n \in CurrentInts }
        \cup { NodeCurrent(n) : n \in CurrentInts }

\* messages whose conversion returns an error
FailingMessages ==
    { Message("/xinfo", <<>>),
      Message("/ch/33/mix/fader", <<TFloat(7500)>>),
      Message("/meters/0", <<TString("bad type")>>),
      Message("node", <<TInteger(1)>>),
      Message("node", <<>>),
      NodeMsg("/ch/33/mix ON   -10.0"),
      NodeMsg("/foo bar") }

\* node records with fewer tokens than the matcher reads
ShortNodeMessages ==
    { NodeMsg("/-show/prepos/current"),
      NodeMsg("/-prefs/show_control"),
      NodeMsg("/ch/01/config Name"),
      NodeMsg("/-show/showfile/cue/000 100 \"Cue\""),
      NodeMsg("/-show/showfile/scene/001") }

MessageInputs == GoodMessages \cup FailingMessages \cup ShortNodeMessages

EncodedCurrent0 ==
    padded_string_buffer("/-show/prepos/current") \o padded_string_buffer(",i")
        \o i32_to_be_bytes(0)
EncodedScenes ==
    padded_string_buffer("node") \o padded_string_buffer(",s")
        \o padded_string_buffer("/-prefs/show_control SCENES")
EncodedMeters ==
    padded_string_buffer("/meters/0") \o padded_string_buffer(",b")
        \o i32_to_be_bytes(4) \o <<0, 0, 64, 63>>

GoodBuffers == { EncodedCurrent0, EncodedScenes, EncodedMeters }

\* buffers the decoder refuses: misaligned, unterminated address, argument
\* shorter than its tag, unknown tag, unimplemented address
FailingBuffers ==
    { <<47, 120, 105>>,
      <<47, 120, 105, 110>>,
      padded_string_buffer("/-show/prepos/current") \o padded_string_buffer(",i"),
      padded_string_buffer("/-show/prepos/current") \o padded_string_buffer(",z")
          \o i32_to_be_bytes(0),
      padded_string_buffer("/xinfo") \o padded_string_buffer(",") }

BufferInputs == GoodBuffers \cup FailingBuffers

\* the show records and the pointer, as the console sends them
ShowMessages ==
    { NodeMsg("/-show/showfile/cue/000 100 \"Cue Idx0 Num100\" 1 1 0 0 1 0 0"),
      NodeMsg("/-show/showfile/cue/002 200 \"Cue Idx2 BadSceneSnip\" 1 5 5 0 1 0 0"),
      NodeMsg("/-show/showfile/scene/001 \"SceneAAA\" \"aaa\" %111111110 1"),
      NodeMsg("/-show/showfile/snippet/000 \"Snip-001\" 1 1 0 32768 1 "),
      NodeCurrent(0), NodeCurrent(1), NodeCurrent(-1), StdCurrent(499),
      NodeMsg("/-prefs/show_control SNIPPETS"),
      NodeMsg("/-prefs/show_control SCENES"),
      Message("/-prefs/show_control", <<TInteger(0)>>) }

\* the fader traffic of a session
FaderMessages ==
    { Message("/ch/01/config/name", <<TString("Vox")>>),
      Message("/ch/01/mix/fader", <<TFloat(7500)>>),
      Message("/ch/01/mix/on", <<TInteger(1)>>),
      Message("/ch/01/config/color", <<TInteger(4)>>),
      NodeMsg("/dca/3 ON   -10.0"),
      NodeMsg("/main/m/config \"LR\" 1 RD 33"),
      NodeMsg("/-show/showfile/scene/001 \"SceneAAA\" \"aaa\" %111111110 1"),
      NodeMsg("/-show/showfile/cue/000 100 \"Cue Idx0 Num100\" 1 1 0 0 1 0 0"),
      NodeMsg("/-show/showfile/snippet/000 \"Snip-001\" 1 1 0 32768 1 "),
      NodeCurrent(1) }

QueryInputs ==
    { FaderIndex("Channel", 1), FaderIndex("Dca", 3), FaderIndex("Main", 2),
      FaderIndex("Main", 3), FaderIndex("Channel", 33), FaderIndex("Aux", 0),
      FaderIndex_Unknown }

(***************************************************************************)
(* The state machine                                                       *)
(***************************************************************************)
\* the X32Console the variables hold
Self ==
    [faders |-> faders, cues |-> cues, snippets |-> snippets, scenes |-> scenes,
     show_mode |-> show_mode, current_cue |-> current_cue]

\* the value of result after a call that did not return
Aborted == [kind |-> "Aborted"]

Init ==
    /\ faders = X32Console_new.faders
    /\ cues = X32Console_new.cues
    /\ snippets = X32Console_new.snippets
    /\ scenes = X32Console_new.scenes
    /\ show_mode = X32Console_new.show_mode
    /\ current_cue = X32Console_new.current_cue
    /\ result = NoOperation
    /\ panicked = FALSE
    /\ op = "new"
    /\ overflow_checks \in BOOLEAN
    /\ steps = 0

\* a call of the API: the state and result it leaves, or the abort; limit is
\* the number of calls the exploration follows
Call(name, o, limit) ==
    /\ ~panicked
    /\ steps < limit
    /\ op' = name
    /\ steps' = steps + 1
    /\ panicked' = o.panic
    /\ result' = IF o.panic THEN Aborted ELSE o.result
    /\ faders' = o.self.faders
    /\ cues' = o.self.cues
    /\ snippets' = o.self.snippets
    /\ scenes' = o.self.scenes
    /\ show_mode' = o.self.show_mode
    /\ current_cue' = o.self.current_cue
    /\ UNCHANGED overflow_checks

Update(cm, limit) ==
    Call("update", X32Console_update(Self, cm, overflow_checks), limit)

\* the conversion of every message and buffer offered, computed once: it
\* does not depend on the state of the console
MessageConversion ==
    [msg \in MessageInputs \cup ShowMessages \cup FaderMessages |->
        ConsoleMessage_try_from_Message(msg)]

BufferConversion ==
    [buf \in BufferInputs, oc \in BOOLEAN |-> ConsoleMessage_try_from_Buffer(buf, oc)]

ProcessMessage(msg, limit) ==
    Call("process_message",
         process_converted(Self, MessageConversion[msg], overflow_checks), limit)

ProcessBuffer(buf, limit) ==
    Call("process_buffer",
         process_converted(Self, BufferConversion[buf, overflow_checks],
                           overflow_checks), limit)

QueryFader(f_type, limit) ==
    Call("fader", X32Console_fader(Self, f_type, overflow_checks), limit)

Reset(limit) == Call("reset", Outcome(reset(Self), NoOperation, FALSE), limit)

ClearCues(limit) ==
    Call("clear_cues", Outcome(clear_cues(Self), NoOperation, FALSE), limit)

\* every input, WideSteps calls deep
Next ==
    \/ \E cm \in UpdateInputs : Update(cm, WideSteps)
    \/ \E msg \in MessageInputs : ProcessMessage(msg, WideSteps)
    \/ \E buf \in BufferInputs : ProcessBuffer(buf, WideSteps)
    \/ \E f_type \in QueryInputs : QueryFader(f_type, WideSteps)
    \/ Reset(WideSteps)
    \/ ClearCues(WideSteps)

Spec == Init /\ [][Next]_vars

ShowUpdates == { MsgCurrentCue(500), MsgCue(499, "9.9.9", "Last", None, Some(100)) }

\* a show session, MaxSteps calls deep
NextShow ==
    \/ \E msg \in ShowMessages : ProcessMessage(msg, MaxSteps)
    \/ \E cm \in ShowUpdates : Update(cm, MaxSteps)
    \/ ClearCues(MaxSteps)

SpecShow == Init /\ [][NextShow]_vars

FaderQueries == { FaderIndex("Channel", 1), FaderIndex("Channel", 33) }

\* a fader session, MaxSteps calls deep
NextFaders ==
    \/ \E msg \in FaderMessages : ProcessMessage(msg, MaxSteps)
    \/ \E u \in FaderUpdates : Update(MsgFader(u), MaxSteps)
    \/ \E f_type \in FaderQueries : QueryFader(f_type, MaxSteps)
    \/ Reset(MaxSteps)

SpecFaders == Init /\ [][NextFaders]_vars

TypeOK ==
    /\ show_mode \in ShowModes
    /\ panicked \in BOOLEAN
    /\ steps \in 0..MaxSteps
    /\ DOMAIN cues = 0..(CueCap - 1)
    /\ DOMAIN scenes = 0..(SceneCap - 1)
    /\ DOMAIN snippets = 0..(SnippetCap - 1)


(***************************************************************************)
(* Properties                                                              *)
(***************************************************************************)
\* the lists, the mode and the pointer are the same before and after
ShowUnchanged ==
    /\ cues' = cues
    /\ scenes' = scenes
    /\ snippets' = snippets
    /\ show_mode' = show_mode
    /\ current_cue' = current_cue

StateUnchanged == ShowUnchanged /\ faders' = faders

\* u targets slot i of array k
Targets(u, k, i) ==
    /\ u.source.cat \in FaderCats
    /\ BankFieldOf(u.source.cat) = k
    /\ u.source.pos = i + 1

\* the fader after is the fader before with the present fields of u set
Merged(before, after, u) ==
    /\ after.source = before.source
    /\ after.label = (IF IsSome(u.label) THEN Unwrap(u.label) ELSE before.label)
    /\ after.level = (IF IsSome(u.level) THEN Unwrap(u.level) ELSE before.level)
    /\ after.is_on = (IF IsSome(u.is_on) THEN Unwrap(u.is_on) ELSE before.is_on)
    /\ after.color = (IF IsSome(u.color) THEN Unwrap(u.color) ELSE before.color)

FaderFrame(u) ==
    /\ ShowUnchanged
    /\ \A k \in BankFields : \A i \in DOMAIN faders[k] :
          IF Targets(u, k, i)
          THEN Merged(faders[k][i], faders'[k][i], u)
          ELSE faders'[k][i] = faders[k][i]

\* the Fader update a message converts to, None when it converts to none
FaderOf(msg) ==
    LET c == MessageConversion[msg]
    IN  IF c.tag = "Ok" /\ c.val.kind = "Fader" THEN Some(c.val.fader) ELSE None

\* C1: a Fader update sets the present fields of the fader it targets and
\* nothing else: the absent fields of that fader, every other fader, the
\* three lists, the mode and the pointer keep their values, whether the
\* update is applied directly or arrives in a message.
C1_FaderUpdateFrame ==
    [][ /\ \A u \in FaderUpdates :
              Update(MsgFader(u), MaxSteps) => FaderFrame(u)
        /\ \A msg \in FaderMessages :
              (IsSome(FaderOf(msg)) /\ ProcessMessage(msg, MaxSteps))
                  => FaderFrame(Unwrap(FaderOf(msg))) ]_vars

\* C1: four single-field updates of channel 1 have accumulated
C1_Accumulated ==
    /\ steps = 4
    /\ ~panicked
    /\ faders.channel[0] =
          [source |-> FaderIndex("Channel", 1), color |-> "Blue",
           label |-> "Vox", level |-> 7500, is_on |-> TRUE]

\* capacity of the array a Cue, Scene or Snippet update stores into
CapacityOf(cm) ==
    CASE cm.kind = "Cue" -> CueCap
      [] cm.kind = "Scene" -> SceneCap
      [] cm.kind = "Snippet" -> SnippetCap

\* the update's record is in its slot and nothing else has changed
SlotReplaced(cm) ==
    /\ faders' = faders
    /\ show_mode' = show_mode
    /\ current_cue' = current_cue
    /\ CASE cm.kind = "Cue" ->
              /\ cues' = [cues EXCEPT ![cm.index] =
                            Some(ShowCue(cm.cue_number, cm.name, cm.snippet, cm.scene))]
              /\ scenes' = scenes /\ snippets' = snippets
         [] cm.kind = "Scene" ->
              /\ scenes' = [scenes EXCEPT ![cm.index] = Some(cm.name)]
              /\ cues' = cues /\ snippets' = snippets
         [] cm.kind = "Snippet" ->
              /\ snippets' = [snippets EXCEPT ![cm.index] = Some(cm.name)]
              /\ cues' = cues /\ scenes' = scenes

ListUpdates == CueUpdates \cup SceneUpdates \cup SnippetUpdates

\* C2: a Cue, Scene or Snippet update whose index is within the capacity of
\* its array replaces that slot with the full record; with any other index
\* it is dropped, the state is unchanged, and the call returns.
C2_IndexedUpdate ==
    [][ \A cm \in ListUpdates :
            Update(cm, WideSteps) =>
                /\ ~panicked'
                /\ IF cm.index < CapacityOf(cm) THEN SlotReplaced(cm)
                   ELSE StateUnchanged ]_vars

\* FaderIndex values that name no fader of the bank
CapOfCat(cat) ==
    CASE cat = "Main" -> MainCap [] cat = "Matrix" -> MatrixCap
      [] cat = "Aux" -> AuxCap [] cat = "Dca" -> DcaCap
      [] cat = "Bus" -> BusCap [] cat = "Channel" -> ChannelCap

NamesNoFader(f_type) ==
    \/ f_type.cat = "Unknown"
    \/ f_type.pos = 0
    \/ f_type.pos > CapOfCat(f_type.cat)

\* C3: a Fader update or a fader query whose FaderIndex is Unknown, has
\* position 0 or a position above the capacity of its category returns
\* without aborting, changes no fader, and the query returns no fader.
C3_InvalidIndexNoOp ==
    [][ /\ \A u \in FaderUpdates :
              (NamesNoFader(u.source) /\ Update(MsgFader(u), WideSteps))
                  => (~panicked' /\ StateUnchanged)
        /\ \A f_type \in QueryInputs :
              (NamesNoFader(f_type) /\ QueryFader(f_type, WideSteps))
                  => (~panicked' /\ StateUnchanged /\ result' = ResQuery(None)) ]_vars


\* the conversion of a process input does not give a ConsoleMessage
MessageFails(msg) == MessageConversion[msg].tag # "Ok"
BufferFails(buf) == BufferConversion[buf, overflow_checks].tag # "Ok"

\* C4: process of an input that fails decoding or interpretation returns
\* NoOperation and leaves every component of the console state unchanged.
C4_FailedInputNoOp ==
    [][ /\ \A msg \in MessageInputs :
              (MessageFails(msg) /\ ProcessMessage(msg, WideSteps))
                  => (~panicked' /\ result' = NoOperation /\ StateUnchanged)
        /\ \A buf \in BufferInputs :
              (BufferFails(buf) /\ ProcessBuffer(buf, WideSteps))
                  => (~panicked' /\ result' = NoOperation /\ StateUnchanged) ]_vars

AllFadersCleared ==
    \A k \in BankFields : \A i \in DOMAIN faders[k] :
        /\ faders[k][i].label = ""
        /\ Fader_name(faders[k][i]) = FaderIndex_default_label(faders[k][i].source)
        /\ faders[k][i].level = 0
        /\ faders[k][i].is_on = FALSE
        /\ faders[k][i].color = "White"

\* C6: after reset every cue, scene and snippet slot is empty, cue_list_size
\* is (0,0,0), and every fader has an empty label (its name is the default
\* of its category), level 0, is off and is White.
C6_ResetClears ==
    op = "reset" =>
        /\ \A i \in 0..(CueCap - 1) : cues[i] = None
        /\ \A i \in 0..(SceneCap - 1) : scenes[i] = None
        /\ \A i \in 0..(SnippetCap - 1) : snippets[i] = None
        /\ cue_list_size(Self) = <<0, 0, 0>>
        /\ AllFadersCleared
        /\ Fader_name(faders.dca[2]) = "DCA3"

\* C6: a reset as the fourth call of a session that moved the pointer
C6_AfterReset ==
    /\ op = "reset"
    /\ steps = 4
    /\ current_cue = Some(1)
    /\ AllFadersCleared
    /\ cue_list_size(Self) = <<0, 0, 0>>

\* C7: a -show/prepos/current message carrying the 32-bit integer n sets
\* the pointer to n when n is not negative and clears it when n is
\* negative, in the integer-argument form and in the node text form.
C7_CurrentEvery32Bit ==
    [][ \A n \in CurrentInts : \A msg \in {StdCurrent(n), NodeCurrent(n)} :
            ProcessMessage(msg, WideSteps) =>
                /\ ~panicked'
                /\ current_cue' = (IF n >= 0 THEN Some(n) ELSE None) ]_vars


\* a link or pointer rendered against a list of names: two digits, a colon
\* and the name when it is set, below 100 and the slot is populated
TwoDigits(d) == DigitChar(d \div 10) \o DigitChar(d % 10)

LinkText(link, list) ==
    IF link # None /\ link[1] < 100 /\ list[link[1]] # None
    THEN TwoDigits(link[1]) \o ":" \o list[link[1]][1]
    ELSE "--"

\* the text of the current cue in Cues mode
CueText ==
    IF current_cue = None \/ current_cue[1] >= 500 \/ cues[current_cue[1]] = None
    THEN "Cue: 0.0.0 :: -- [--] [--]"
    ELSE LET c == cues[current_cue[1]][1]
         IN  "Cue: " \o c.cue_number \o " :: " \o c.name
                \o " [" \o LinkText(c.scene, scenes) \o "]"
                \o " [" \o LinkText(c.snippet, snippets) \o "]"

\* the records of the end-to-end scenario are stored and cue 0 is current
ScenarioLoaded ==
    /\ cues[0] = Some(ShowCue("1.0.0", "Cue Idx0 Num100", Some(0), Some(1)))
    /\ scenes[1] = Some("SceneAAA")
    /\ snippets[0] = Some("Snip-001")
    /\ current_cue = Some(0)

\* C8: in Cues mode active_cue is 'Cue: <number> :: <name> [<scene>] [<snippet>]'
\* for a populated current cue, each link being '<two digits>:<name>' when it
\* is set, below 100 and populated and '--' otherwise, and is the placeholder
\* 'Cue: 0.0.0 :: -- [--] [--]' when the pointer is absent, is 500 or more, or
\* points at an empty slot; with the scenario's records and cue 0 current it
\* is 'Cue: 1.0.0 :: Cue Idx0 Num100 [01:SceneAAA] [00:Snip-001]'.
C8_ActiveCueText ==
    show_mode = "Cues" =>
        /\ active_cue(Self) = CueText
        /\ ScenarioLoaded =>
              active_cue(Self) = "Cue: 1.0.0 :: Cue Idx0 Num100 [01:SceneAAA] [00:Snip-001]"

\* C8: the scenario's four node records have been processed, the last one
\* being current index 0, and the result carries the composite string
C8_ScenarioShown ==
    /\ show_mode = "Cues"
    /\ ScenarioLoaded
    /\ steps = 4
    /\ op = "process_message"
    /\ result = ResCurrentCue("Cue: 1.0.0 :: Cue Idx0 Num100 [01:SceneAAA] [00:Snip-001]")

\* the show-mode messages of a show session and the mode each one names
ModeMessages ==
    { <<NodeMsg("/-prefs/show_control SNIPPETS"), "Snippets">>,
      <<NodeMsg("/-prefs/show_control SCENES"), "Scenes">>,
      <<Message("/-prefs/show_control", <<TInteger(0)>>), "Cues">> }

\* the active selection of mode m for the lists and the pointer after the step
SelectionText(m) ==
    CASE m = "Snippets" -> "Snippet: " \o LinkText(current_cue', snippets')
      [] m = "Scenes" -> "Scene: " \o LinkText(current_cue', scenes')
      [] m = "Cues" -> CueText'

\* C9: a ShowMode update sets the mode, whatever it was, and leaves the
\* pointer, the three lists and the faders unchanged; the active selection
\* afterwards is the retained index looked up in the list of the new mode:
\* 'Snippet: 00:Snip-001' for index 0 with snippet 0 populated, 'Snippet: --'
\* or 'Scene: --' for an index whose slot is empty.
C9_ShowModeOverwrite ==
    [][ \A mm \in ModeMessages :
            ProcessMessage(mm[1], MaxSteps) =>
                /\ show_mode' = mm[2]
                /\ current_cue' = current_cue
                /\ cues' = cues /\ scenes' = scenes /\ snippets' = snippets
                /\ faders' = faders
                /\ active_cue(Self') = SelectionText(mm[2])
                /\ result' = ResCurrentCue(SelectionText(mm[2]))
                /\ (mm[2] = "Snippets" /\ current_cue = Some(0)
                        /\ snippets[0] = Some("Snip-001"))
                      => active_cue(Self') = "Snippet: 00:Snip-001"
                /\ (mm[2] = "Snippets" /\ current_cue # None
                        /\ current_cue[1] < 100 /\ snippets[current_cue[1]] = None)
                      => active_cue(Self') = "Snippet: --"
                /\ (mm[2] = "Scenes" /\ current_cue # None
                        /\ current_cue[1] < 100 /\ scenes[current_cue[1]] = None)
                      => active_cue(Self') = "Scene: --" ]_vars

\* C9: the mode went to Snippets with index 0 retained and snippet 0 populated
C9_SnippetSelected ==
    /\ op = "process_message"
    /\ show_mode = "Snippets"
    /\ current_cue = Some(0)
    /\ snippets[0] = Some("Snip-001")
    /\ result = ResCurrentCue("Snippet: 00:Snip-001")

\* the result the kind of an update determines, on the state after it
ResultByKind(cm) ==
    CASE cm.kind \in {"Cue", "Scene", "Snippet"} -> result' = NoOperation
      [] cm.kind \in {"CurrentCue", "ShowMode"} ->
            result' = ResCurrentCue(active_cue(Self'))
      [] cm.kind = "Fader" ->
            IF NamesNoFader(cm.fader.source) THEN result' = NoOperation
            ELSE result'.kind = "Fader"
      [] cm.kind = "Meters" -> result' = ResMeters(cm.meters)

\* the ConsoleMessage a message or a buffer converts to
Converted(c) == IF c.tag = "Ok" THEN Some(c.val) ELSE None

FaderIndex_try_from_Integer(s, d) ==
    IF d < 0 THEN Err(InvalidFader) ELSE FaderIndex_of(s, d)

\* what a call returned for its input
Returned(input, value) == [kind |-> "Returned", input |-> input, value |-> value]

\* the number of conversion or codec calls the exploration follows
PureSteps == 1

\* a call of a function that does not touch the console; an abort is kept
\* as the value Panic beside the input
PureCall(name, input, value, panic, limit) ==
    /\ ~panicked
    /\ steps < limit
    /\ op' = name
    /\ steps' = steps + 1
    /\ panicked' = panic
    /\ result' = Returned(input, value)
    /\ UNCHANGED <<faders, cues, snippets, scenes, show_mode, current_cue,
                   overflow_checks>>

BankNames == {"auxin", "mtx", "main", "ch", "dca", "bus", "fx", "Ch", ""}
IndexInts == {-2147483647 - 1, -1, 0, 1, 2, 3, 6, 7, 8, 9, 16, 17, 32, 33, 2147483647}
IndexTokens ==
    {"", "0", "00", "1", "01", "2", "02", "3", "06", "07", "08", "09", "16", "17",
     "32", "33", "m", "st", "-1", "x", "+3", "1a"}

ResolveInteger(s, d, limit) ==
    PureCall("FaderIndex::try_from", <<"Integer", s, d>>,
             FaderIndex_try_from_Integer(s, d), FALSE, limit)

ResolveString(s, d, limit) ==
    PureCall("FaderIndex::try_from", <<"String", s, d>>,
             FaderIndex_try_from(s, d), FALSE, limit)

\* the banks of the console and the category each one names
BankCategory ==
    [auxin |-> "Aux", mtx |-> "Matrix", main |-> "Main", ch |-> "Channel",
     dca |-> "Dca", bus |-> "Bus"]

\* the position an address token states: its number, "st" and "m" for the
\* two main faders, -1 when it states none
TokenPosition(s, d) ==
    CASE AllDigits(d) -> DigitsVal(d, 0)
      [] Len(d) > 1 /\ Head(d) = "+" /\ AllDigits(Tail(d)) -> DigitsVal(Tail(d), 0)
      [] s = "main" /\ d = "st" -> 1
      [] s = "main" /\ d = "m" -> 2
      [] OTHER -> -1

\* the resolution the bank and the position call for
Resolution(s, pos) ==
    IF s \in DOMAIN BankCategory /\ pos >= 1 /\ pos <= CapOfCat(BankCategory[s])
    THEN Ok(FaderIndex(BankCategory[s], pos))
    ELSE Err(InvalidFader)

\* the position the input of a resolution states
StatedPosition(input) ==
    IF input[1] = "Integer" THEN input[3] ELSE TokenPosition(input[2], input[3])

\* C11: a bank name and an index (integer or address token) resolve to the
\* fader of that bank and position only when the bank is one of the six and
\* the position lies between 1 and the bank's capacity; every other position
\* and every unknown bank gives the invalid-fader error.
C11_FaderIndexResolution ==
    op = "FaderIndex::try_from"
        => result.value = Resolution(result.input[2], StatedPosition(result.input))


\* ConsoleMessage::try_from(msg) called on its own
Interpret(msg, limit) ==
    PureCall("ConsoleMessage::try_from", msg, ConsoleMessage_try_from_Message(msg),
             ConsoleMessage_try_from_Message(msg).tag = "Panic", limit)

\* messages around the address patterns: a fader pattern with a bad bank or
\* index, addresses next to a pattern, node records with one token
PatternMessages ==
    { Message("/dca/2/config/icon", <<>>),
      Message("/auxin/09/mix/fader", <<>>),
      Message("/ch/36/mix/on", <<>>),
      Message("/dca/9/config/name", <<>>),
      Message("/mtx/8/config/color", <<>>),
      Message("/fx/01/mix/on", <<TInteger(1)>>),
      Message("/main/st/mix/fader", <<TFloat(5000)>>),
      Message("/main/m/mix/on", <<TInteger(1)>>),
      Message("/main/09/mix/fader", <<TFloat(5000)>>),
      Message("/bus/16/mix/on", <<TInteger(0)>>),
      Message("/bus/17/mix/on", <<TInteger(0)>>),
      Message("/dca/8/fader", <<TFloat(2500)>>),
      Message("/dca/0/fader", <<TFloat(2500)>>),
      Message("/ch/01/mix", <<>>),
      Message("/meters/x", <<TBlob(<<0, 0, 64, 63>>)>>),
      Message("/-show/prepos", <<TInteger(1)>>),
      NodeMsg("/ch/01/mix ON"),
      NodeMsg("/dca/3 OFF"),
      NodeMsg("/bus/17/mix ON -5.0"),
      NodeMsg("/fx/01/config \"Name\" 1 RD 33"),
      NodeMsg("/auxin/08/config \"Name\" 1 RD 33"),
      NodeMsg("/-show/showfile/show \"Name\""),
      NodeMsg("/ch/01/mix/fader 0.5") }

\* node records with fewer tokens than their pattern reads, or none
ShortRecords ==
    { NodeMsg("/-show/showfile/snippet/000"),
      NodeMsg("/-show/showfile/cue/000 1 \"Cue\" 1 1 0"),
      NodeMsg("/-show/showfile/cue/000 100 \"Cue\" 1 1"),
      NodeMsg("/ch/01/config"),
      NodeMsg("/ch/01/config \"Name\" 1"),
      NodeMsg("") }

InterpretInputs == MessageInputs \cup PatternMessages \cup ShortRecords

\* the message carries an address to match: its own, or a node payload
HasAddress(msg) ==
    msg.address = "node" => (Len(msg.args) > 0 /\ msg.args[1].t = "String")

\* the segments of the address a message is matched on: its own address,
\* or the first token of the payload of a node message
MatchedSegments(msg) ==
    LET address == IF msg.address = "node"
                   THEN split_node_msg(msg.args[1].str).address
                   ELSE msg.address
    IN  SplitSlash(IF Len(address) > 0 /\ Head(address) = "/"
                   THEN Tail(address) ELSE address, "")

\* the fader patterns of the table, standard and node form
IsFaderPattern(node, segs) ==
    IF node
    THEN \/ Len(segs) = 3 /\ segs[3] \in {"mix", "config"}
         \/ Len(segs) = 2 /\ segs[1] = "dca"
    ELSE \/ Len(segs) = 4 /\ segs[3] = "mix" /\ segs[4] \in {"fader", "on"}
         \/ Len(segs) = 4 /\ segs[3] = "config" /\ segs[4] \in {"name", "color"}
         \/ Len(segs) = 3 /\ segs[1] = "dca" /\ segs[3] \in {"fader", "on"}

\* the other patterns of the table
IsShowPattern(msg, segs) ==
    \/ segs = <<"-show", "prepos", "current">>
    \/ segs = <<"-prefs", "show_control">>
    \/ /\ msg.address = "node"
       /\ Len(segs) = 4
       /\ SubSeq(segs, 1, 2) = <<"-show", "showfile">>
       /\ segs[3] \in {"cue", "scene", "snippet"}
    \/ /\ msg.address # "node"
       /\ Len(segs) = 2 /\ segs[1] = "meters" /\ AllDigits(segs[2])
       /\ Len(msg.args) > 0 /\ msg.args[1].t = "Blob"

\* bank and index of a fader pattern name a fader
NamesFader(segs) ==
    Resolution(segs[1], TokenPosition(segs[1], segs[2])).tag = "Ok"

\* C12: interpreting a message gives the unimplemented-packet error exactly
\* when its address (the address token of a node payload) matches no known
\* pattern, and the invalid-fader error exactly when a fader pattern matched
\* but the bank or index is invalid; the console state is not changed.
C12_ErrorClassification ==
    [][ (op' = "ConsoleMessage::try_from" /\ HasAddress(result'.input)) =>
          LET msg   == result'.input
              segs  == MatchedSegments(msg)
              fader == IsFaderPattern(msg.address = "node", segs)
          IN  /\ (result'.value = Err(UnimplementedPacket))
                    <=> ~(fader \/ IsShowPattern(msg, segs))
              /\ (result'.value = Err(InvalidFader))
                    <=> (fader /\ ~NamesFader(segs))
              /\ StateUnchanged ]_vars


\* the tokens after the address token of a node payload
NodeTokens(msg) == split_node_msg(msg.args[1].str).args

\* a node message without an argument, or a record of a recognized pattern
\* with fewer tokens than the pattern reads
IsMalformedRecord(msg) ==
    /\ msg.address = "node"
    /\ \/ Len(msg.args) = 0
       \/ /\ HasAddress(msg)
          /\ LET segs == MatchedSegments(msg)
                 n    == Len(NodeTokens(msg))
             IN  \/ Len(segs) = 3 /\ segs[3] = "config" /\ n < 3
                 \/ /\ Len(segs) = 4
                    /\ SubSeq(segs, 1, 3) = <<"-show", "showfile", "cue">>
                    /\ (n < 5 \/ Len(NodeTokens(msg)[1]) < 2)
                 \/ /\ Len(segs) = 4
                    /\ SubSeq(segs, 1, 2) = <<"-show", "showfile">>
                    /\ segs[3] \in {"scene", "snippet"}
                    /\ n = 0
                 \/ /\ segs \in {<<"-show", "prepos", "current">>,
                                 <<"-prefs", "show_control">>}
                    /\ n = 0

\* C13: interpreting a node message that has no argument, or whose payload
\* address matches a recognized pattern but has fewer tokens than the
\* pattern reads, returns the malformed-packet error and does not abort.
C13_MalformedRecord ==
    (op = "ConsoleMessage::try_from" /\ IsMalformedRecord(result.input))
        => (~panicked /\ result.value = Err(MalformedPacket))


\* the number of faders each category is stated to hold
StatedCount ==
    [Main |-> 2, Matrix |-> 6, Aux |-> 8, Dca |-> 8, Bus |-> 16, Channel |-> 32]

\* C14: in every reachable state the bank holds exactly 2 main, 6 matrix,
\* 8 aux, 8 dca, 16 bus and 32 channel faders, and the fader at zero-based
\* slot i of a category has source (that category, i + 1).
C14_BankShape ==
    /\ DOMAIN faders = BankFields
    /\ \A cat \in DOMAIN StatedCount :
          /\ DOMAIN faders[BankFieldOf(cat)] = 0..(StatedCount[cat] - 1)
          /\ \A i \in DOMAIN faders[BankFieldOf(cat)] :
                faders[BankFieldOf(cat)][i].source = FaderIndex(cat, i + 1)

\* C14: two updates have changed faders of two categories
C14_TwoUpdated ==
    /\ op = "update"
    /\ faders.dca[2].is_on
    /\ faders.channel[0].label = "Vox"

(***************************************************************************)
(* Encoding: Into<Vec<u8>> for Type, TryFrom<Message>, TryFrom<Bundle> and *)
(* TryFrom<Packet> for Buffer; decoding of bundles and packets.            *)
(* A TimeTag is its eight big-endian bytes (seconds, then fractional); a   *)
(* Packet is [kind |-> "Message" | "Bundle", v |-> the Message or Bundle]. *)
(***************************************************************************)
InvalidBuffer == "Packet(InvalidBuffer)"

\* "#bundle" and its NUL
BUNDLE_TAG == <<35, 98, 117, 110, 100, 108, 101, 0>>

TimeTag(seconds, fractional) == i32_to_be_bytes(seconds) \o i32_to_be_bytes(fractional)

Bundle(time, messages) == [time |-> time, messages |-> messages]
PMessage(v) == [kind |-> "Message", v |-> v]
PBundle(v) == [kind |-> "Bundle", v |-> v]

\* the position of the leading one bit of n >= 1
RECURSIVE Log2(_)
Log2(n) == IF n < 2 THEN 0 ELSE 1 + Log2(n \div 2)

\* sign, exponent and significand of n sixteenths, n >= 1, p = Log2(n)
f32_bits(neg, n, p) ==
    [sign |-> IF neg THEN 128 ELSE 0, e |-> p + 123, m |-> (n - Pow2(p)) * Pow2(23 - p)]

f32_bytes_of(b) ==
    <<b.sign + (b.e \div 2), (b.e % 2) * 128 + (b.m \div 65536), (b.m \div 256) % 256, b.m % 256>>

f32_sixteenths(neg, n) ==
    IF n = 0 THEN <<0, 0, 0, 0>> ELSE f32_bytes_of(f32_bits(neg, n, Log2(n)))

\* f32::to_be_bytes of a value in ten-thousandths that is a multiple of 1/16
f32_to_be_bytes(v) == f32_sixteenths(v < 0, (IF v < 0 THEN 0 - v ELSE v) \div 625)

RECURSIVE JoinChars(_)
JoinChars(list) == IF Len(list) = 0 THEN "" ELSE Head(list) \o JoinChars(Tail(list))

\* the Blob arm: the size, the bytes, zeros up to a multiple of 4
BlobBytes(buffer) ==
    IF Len(buffer) % 4 = 0 THEN buffer ELSE buffer \o Zeros(4 - (Len(buffer) % 4))

\* Into<Vec<u8>> for Type
Type_into_bytes(a) ==
    CASE a.t = "Integer" -> i32_to_be_bytes(a.int)
      [] a.t = "Float" -> f32_to_be_bytes(a.flt)
      [] a.t \in {"LongInteger", "Double", "Color", "Char", "TimeTag"} -> a.raw
      [] a.t = "String" -> padded_string_buffer(a.str)
      [] a.t = "TypeList" ->
            IF Len(a.list) = 0 THEN <<>>
            ELSE padded_string_buffer("," \o JoinChars(a.list))
      [] a.t = "Blob" -> BlobBytes(i32_to_be_bytes(Len(a.blob)) \o a.blob)
      [] OTHER -> <<>>

\* the type character of a value as a sequence: empty for Unknown (the Err)
Type_as_type_char(a) ==
    CASE a.t = "String" -> <<"s">>
      [] a.t = "Integer" -> <<"i">>
      [] a.t = "TypeList" -> <<",">>
      [] a.t = "TimeTag" -> <<"t">>
      [] a.t = "Bang" -> <<"I">>
      [] a.t = "Blob" -> <<"b">>
      [] a.t = "Char" -> <<"c">>
      [] a.t = "Color" -> <<"r">>
      [] a.t = "Double" -> <<"d">>
      [] a.t = "Float" -> <<"f">>
      [] a.t = "LongInteger" -> <<"h">>
      [] a.t = "Null" -> <<"N">>
      [] a.t = "Boolean" -> IF a.bool THEN <<"T">> ELSE <<"F">>
      [] OTHER -> <<>>

\* Message::type_list: filter_map(as_type_char().ok())
RECURSIVE Message_type_list(_)
Message_type_list(args) ==
    IF Len(args) = 0 THEN <<>>
    ELSE Type_as_type_char(Head(args)) \o Message_type_list(Tail(args))

\* str::is_ascii: every character is one of the 7-bit characters of the text
IsAsciiChar(c) ==
    \/ \E i \in 1..Len(AsciiLow) : CharAt(AsciiLow, i) = c
    \/ \E i \in 1..Len(AsciiHigh) : CharAt(AsciiHigh, i) = c

is_ascii(s) == \A i \in 1..Len(s) : IsAsciiChar(CharAt(s, i))

\* is_valid that looks at the address only
Message_is_valid_address_only(self) ==
    is_ascii(self.address) /\ self.address # ""

Message_is_valid(self) ==
    IF is_ascii(self.address) /\ self.address # ""
    THEN ~(\E i \in 1..Len(self.args) : self.args[i].t = "Unknown")
    ELSE FALSE

\* FromIterator<Type> for Buffer
RECURSIVE Buffer_from_iter(_)
Buffer_from_iter(args) ==
    IF Len(args) = 0 THEN <<>>
    ELSE Type_into_bytes(Head(args)) \o Buffer_from_iter(Tail(args))

\* TryFrom<Message> for Buffer
Message_into_Buffer(value) ==
    IF ~Message_is_valid(value) THEN Err(InvalidMessage)
    ELSE Ok(padded_string_buffer(value.address)
            \o (IF value.force_empty_args /\ Len(value.args) = 0
                THEN <<44, 0, 0, 0>>
                ELSE Type_into_bytes(TTypeList(Message_type_list(value.args))))
            \o Buffer_from_iter(value.args))

RECURSIVE Packet_into_Buffer(_)
RECURSIVE Bundle_items(_, _)

\* Bundle_item_added that writes the size of the whole block, prefix included
Bundle_item_added_block_size(buffer, item_buffer, rest) ==
    IF item_buffer.tag # "Ok" THEN item_buffer
    ELSE Bundle_items(buffer \o i32_to_be_bytes(Len(item_buffer.val) + 4) \o item_buffer.val,
                      rest)

\* `Self::try_from(item)?`, then the length and the bytes of the item
Bundle_item_added(buffer, item_buffer, rest) ==
    IF item_buffer.tag # "Ok" THEN item_buffer
    ELSE Bundle_items(buffer \o i32_to_be_bytes(Len(item_buffer.val)) \o item_buffer.val,
                      rest)

\* the for loop of TryFrom<Bundle> for Buffer on the items that are left
Bundle_items(buffer, items) ==
    IF Len(items) = 0 THEN Ok(buffer)
    ELSE Bundle_item_added(buffer, Packet_into_Buffer(Head(items)), Tail(items))

\* TryFrom<Bundle> for Buffer
Bundle_into_Buffer(value) == Bundle_items(BUNDLE_TAG \o value.time, value.messages)

\* TryFrom<Packet> for Buffer
Packet_into_Buffer(value) ==
    IF value.kind = "Message" THEN Message_into_Buffer(value.v)
    ELSE Bundle_into_Buffer(value.v)

Buffer_is_bundle(data) == Len(data) >= 8 /\ SubSeq(data, 1, 8) = BUNDLE_TAG

\* the slice 4..chunk_tot of get_next_block
Buffer_block_of(data, chunk_tot) ==
    IF chunk_tot.panic THEN BufRes(Panic, data)
    ELSE IF usize_lt(Len(data), chunk_tot.v) THEN BufRes(Err("BufferUnderrun"), data)
    ELSE IF chunk_tot.v < 4 THEN BufRes(Panic, data)
    ELSE BufRes(Ok(SubSeq(data, 5, chunk_tot.v)), Drop(data, chunk_tot.v))

\* get_next_block; the declared size is an i32 cast to usize
Buffer_get_next_block(data, oc) ==
    IF Len(data) < 4 THEN BufRes(Err("BufferUnderrun"), data)
    ELSE IF ~Buffer_is_valid(data) THEN BufRes(Err("NotFourByte"), data)
    ELSE Buffer_block_of(data, usize_add(i32_from_be_bytes(SubSeq(data, 1, 4)), 4, oc))

RECURSIVE Packet_try_from_Buffer(_, _)
RECURSIVE Bundle_blocks(_, _, _)

\* buffer.try_into() of a block, then the rest of the loop
Bundle_block_pushed(messages, msg, data, oc) ==
    IF msg.tag = "Panic" THEN Panic
    ELSE IF msg.tag = "Err" THEN Err(InvalidBuffer)
    ELSE Bundle_blocks(Append(messages, msg.val), data, oc)

\* the match on data.next_block()
Bundle_block_read(messages, b, oc) ==
    IF b.res.tag = "Panic" THEN Panic
    ELSE IF b.res.tag = "Err" THEN Err(InvalidBuffer)
    ELSE Bundle_block_pushed(messages, Packet_try_from_Buffer(b.res.val, oc), b.data, oc)

\* while !data.is_empty()
Bundle_blocks(messages, data, oc) ==
    IF Len(data) = 0 THEN Ok(messages)
    ELSE Bundle_block_read(messages, Buffer_get_next_block(data, oc), oc)

\* Ok(Self { time, messages })
Bundle_of_messages(time, messages) ==
    IF messages.tag = "Ok" THEN Ok(Bundle(time, messages.val)) ELSE messages

\* the time tag read with `?`
Bundle_of_time(t, oc) ==
    IF t.res.tag # "Ok" THEN t.res
    ELSE Bundle_of_messages(t.res.val.raw, Bundle_blocks(<<>>, t.data, oc))

\* the comparison of the first string read with the tag
Bundle_of_tag(r, oc) ==
    IF r.res = Ok(BUNDLE_TAG)
    THEN Bundle_of_time(Decoded(Buffer_get_bytes(r.data, 8), "t", oc), oc)
    ELSE Err(InvalidBuffer)

\* TryFrom<Buffer> for Bundle
Bundle_try_from_Buffer(data, oc) ==
    IF ~Buffer_is_valid(data) THEN Err(NotFourByte)
    ELSE Bundle_of_tag(Buffer_get_string(data), oc)

\* Ok(Self::Message(v)) or Ok(Self::Bundle(v)), the error as it is
Packet_of(kind, r) == IF r.tag = "Ok" THEN Ok([kind |-> kind, v |-> r.val]) ELSE r

\* TryFrom<Buffer> for Packet
Packet_try_from_Buffer(data, oc) ==
    IF ~Buffer_is_valid(data) THEN Err(NotFourByte)
    ELSE IF Buffer_is_bundle(data) THEN Packet_of("Bundle", Bundle_try_from_Buffer(data, oc))
    ELSE Packet_of("Message", Message_try_from_Buffer(data, oc))

\* the decoding of an encoding, in the form (Message, Bundle or Packet) of
\* the value that was encoded
DecodeAs(form, enc, oc) ==
    IF enc.tag # "Ok" THEN enc
    ELSE CASE form = "Message" -> Message_try_from_Buffer(enc.val, oc)
           [] form = "Bundle" -> Bundle_try_from_Buffer(enc.val, oc)
           [] OTHER -> Packet_try_from_Buffer(enc.val, oc)

EncodeAs(form, value) ==
    CASE form = "Message" -> Message_into_Buffer(value)
      [] form = "Bundle" -> Bundle_into_Buffer(value)
      [] OTHER -> Packet_into_Buffer(value)

(***************************************************************************)
(* Values that are encoded and decoded                                     *)
(***************************************************************************)
MessageOf(address, args, force_empty_args) ==
    [address |-> address, args |-> args, force_empty_args |-> force_empty_args]

Hello23 == Message("/hello", <<TInteger(23)>>)

CodecMessages ==
    { Hello23,
      Message("/a", <<>>),
      MessageOf("/a", <<>>, TRUE),
      MessageOf("/a", <<TInteger(1)>>, TRUE),
      Message("/abc", <<TString("hi"), TString(""), TString("four")>>),
      Message("/x", <<TFloat(7500), TFloat(-10000), TFloat(0), TFloat(625)>>),
      Message("/x", <<TBoolean(TRUE), TInteger(1), TBoolean(FALSE), TNull, TBang>>),
      Message("/i", <<TInteger(-1), TInteger(-2147483647 - 1), TInteger(2147483647)>>),
      Message("/b", <<TBlob(<<1, 2, 3>>), TBlob(<<>>), TBlob(<<9, 8, 7, 6>>)>>),
      Message("/o", <<TOpaque("TimeTag", TimeTag(1, 2)), TOpaque("Char", <<0, 0, 0, 97>>),
                      TOpaque("Color", <<255, 0, 128, 1>>),
                      TOpaque("LongInteger", <<0, 0, 0, 0, 0, 0, 1, 0>>),
                      TOpaque("Double", <<64, 9, 33, 251, 84, 68, 45, 24>>)>>),
      Message("/ab", <<TInteger(1), TString("x")>>),
      Message("/ab", <<TString("x"), TInteger(1)>>),
      Message("/l", <<TTypeList(<<"i">>)>>),
      Message("#bundle", <<>>),
      Message("#bundle", <<TInteger(1)>>) }

Inner == Bundle(TimeTag(0, 1), <<PMessage(Hello23)>>)

CodecBundles ==
    { Bundle(TimeTag(0, 0), <<>>),
      Inner,
      Bundle(TimeTag(5, 6), <<PMessage(Hello23), PBundle(Inner)>>),
      Bundle(TimeTag(5, 6), <<PBundle(Inner), PMessage(Hello23)>>),
      Bundle(TimeTag(-1, -1),
             <<PBundle(Bundle(TimeTag(1, 1), <<PBundle(Inner), PBundle(Bundle(TimeTag(0, 0), <<>>))>>)),
               PMessage(Message("/a", <<>>)),
               PMessage(MessageOf("/a", <<>>, TRUE))>>),
      Bundle(TimeTag(0, 0), <<PMessage(Message("/b", <<TBlob(<<1, 2, 3>>)>>)),
                              PMessage(Message("/abc", <<TString("hi")>>))>>) }

RoundTripInputs ==
    {<<"Message", v>> : v \in CodecMessages}
        \cup {<<"Bundle", v>> : v \in CodecBundles}
        \cup {<<"Packet", PMessage(v)>> : v \in CodecMessages}
        \cup {<<"Packet", PBundle(v)>> : v \in CodecBundles}

\* a call on its own whose abort is the Panic value
PureResult(name, input, value, limit) ==
    PureCall(name, input, value, value.tag = "Panic", limit)

\* Buffer::try_from(value) and, on the buffer, the try_from of the same form
RoundTrip(form, value, limit) ==
    PureResult("round_trip", <<form, value>>,
               DecodeAs(form, EncodeAs(form, value), overflow_checks), limit)

RECURSIVE IsValidPacket(_)
IsValidBundle(b) == \A i \in 1..Len(b.messages) : IsValidPacket(b.messages[i])
IsValidPacket(p) == IF p.kind = "Message" THEN Message_is_valid(p.v) ELSE IsValidBundle(p.v)

IsValidValue(form, value) ==
    CASE form = "Message" -> Message_is_valid(value)
      [] form = "Bundle" -> IsValidBundle(value)
      [] OTHER -> IsValidPacket(value)

\* C15: for every valid Message, Bundle or Packet, decoding its encoding
\* gives a value equal to the original
C15_RoundTrip ==
    (op = "round_trip" /\ IsValidValue(result.input[1], result.input[2]))
        => result.value = Ok(result.input[2])

(***************************************************************************)
(* The four reads of a Buffer called on their own.  The value of a read is *)
(* its result and the data the buffer is left with.                        *)
(***************************************************************************)
ReadMethods == {"get_bytes", "get_string", "get_next_byte_block", "get_next_block"}

Buffer_read(method, data, length, oc) ==
    CASE method = "get_bytes" -> Buffer_get_bytes(data, length)
      [] method = "get_string" -> Buffer_get_string(data)
      [] method = "get_next_byte_block" -> Buffer_get_next_byte_block(data, oc)
      [] OTHER -> Buffer_get_next_block(data, oc)

\* the abort of a read is the Panic result
ReadResult(input, r, limit) ==
    PureCall("Buffer::read", input, r, r.res.tag = "Panic", limit)

\* buffer.get_bytes(length), or the read without argument that method names
Read(method, data, length, limit) ==
    ReadResult(<<method, data, length>>,
               Buffer_read(method, data, length, overflow_checks), limit)

\* a block: the big-endian size and the bytes that follow it
Sized(size, bytes) == i32_to_be_bytes(size) \o bytes

\* buffers of 0 to 13 bytes: text with and without its NUL, blocks whose
\* declared size is a multiple of 4 or not, within the buffer or beyond it,
\* negative and maximal
ReadBuffers ==
    { <<>>, <<0>>, <<97>>, <<97, 0>>, <<0, 0, 3>>, <<97, 98, 99>>,
      <<97, 98, 99, 0>>, <<97, 98, 99, 100>>, <<0, 0, 0, 0>>,
      <<0, 0, 0, 0, 0>>, <<97, 98, 99, 0, 1>>, <<0, 0, 0, 1, 9, 0>>,
      <<97, 98, 99, 100, 101, 102, 0>>,
      <<97, 98, 99, 100, 101, 0, 0, 0>>, <<97, 98, 99, 100, 101, 102, 103, 104>>,
      Sized(4, <<1, 2, 3, 4>>), Sized(0, <<1, 2, 3, 4>>), Sized(8, <<1, 2, 3, 4>>),
      Sized(1, <<7, 0, 0, 0>>), Sized(3, <<7, 8, 9, 0, 5, 5, 5, 5>>),
      Sized(5, <<1, 2, 3, 4, 5, 0, 0, 0>>), Sized(6, <<1, 2, 3, 4, 5, 6, 0, 0, 9>>),
      Sized(4, <<1, 2, 3, 4, 5, 6, 7, 8>>), Sized(2, <<1, 2, 3, 4, 5, 6, 7, 8>>),
      Sized(-1, <<1, 2, 3, 4>>), Sized(-4, <<1, 2, 3, 4>>), Sized(-5, <<1, 2, 3, 4>>),
      Sized(2147483647, <<1, 2, 3, 4>>), Sized(-2147483647 - 1, <<1, 2, 3, 4>>),
      Sized(2147483644, <<>>), Sized(5, <<1, 2, 3, 4, 5>>) }

ReadLengths == {0, 1, 4, 6, 8, 12}

IsMisaligned(data) == Len(data) % 4 # 0

\* C16: on a buffer whose length is not a multiple of 4 every read fails
\* with the alignment error, whatever else is wrong with the read
C16_AlignmentFirst ==
    (op = "Buffer::read" /\ IsMisaligned(result.input[2]))
        => result.value.res = Err("NotFourByte")

(***************************************************************************)
(* Decoding called on its own: Message, Bundle or Packet::try_from(buffer) *)
(***************************************************************************)
Decode(form, data, limit) ==
    PureResult("decode", <<form, data>>, DecodeAs(form, Ok(data), overflow_checks), limit)

\* the bytes of a value that encodes
Encoded(p) == Packet_into_Buffer(p).val

HelloBytes == Encoded(PMessage(Hello23))

\* a block of the size its bytes have
Block(bytes) == Sized(Len(bytes), bytes)

\* the tag, a time tag and the blocks of a body
BundleOf(body) == BUNDLE_TAG \o TimeTag(0, 0) \o body

\* bodies of bundles: blocks that decode, blocks whose declared size is
\* beyond the bytes that remain, negative or maximal, blocks that are no
\* packet, alone and after a block that decodes
BundleBodies ==
    { <<>>,
      Block(HelloBytes),
      Block(HelloBytes) \o Block(Encoded(PMessage(Message("/a", <<>>)))),
      Block(Encoded(PBundle(Inner))),
      Sized(4, <<>>),
      Sized(4, <<1, 1, 1, 1>>),
      Sized(0, <<>>),
      Sized(20, HelloBytes),
      Sized(12, HelloBytes),
      Sized(5, HelloBytes),
      Block(HelloBytes) \o Sized(4, <<>>),
      Block(HelloBytes) \o Sized(20, HelloBytes),
      Block(HelloBytes) \o Sized(4, <<1, 1, 1, 1>>),
      Block(HelloBytes) \o <<0, 0, 0, 16>>,
      Sized(-1, HelloBytes),
      Sized(-4, HelloBytes),
      Sized(-5, HelloBytes),
      Sized(-2147483647 - 1, HelloBytes),
      Sized(2147483647, HelloBytes),
      Sized(2147483644, HelloBytes),
      Block(HelloBytes) \o Sized(-1, <<>>),
      Block(HelloBytes) \o Sized(2147483647, <<>>),
      Block(BundleOf(Block(HelloBytes))),
      Block(BundleOf(Sized(16, <<>>))),
      Block(BundleOf(Sized(-2, <<>>))) }

BundleBuffers == {BundleOf(body) : body \in BundleBodies}

RECURSIVE BodyIsSound(_, _)

\* the block of the declared size at the front of the body is within the
\* body and decodes, and so do the blocks after it
BlockIsSound(body, size, oc) ==
    /\ size >= 0
    /\ size <= Len(body) - 4
    /\ Packet_try_from_Buffer(SubSeq(body, 5, 4 + size), oc).tag = "Ok"
    /\ BodyIsSound(Drop(body, 4 + size), oc)

BodyIsSound(body, oc) ==
    \/ Len(body) = 0
    \/ /\ Len(body) >= 4
       /\ BlockIsSound(body, i32_from_be_bytes(SubSeq(body, 1, 4)), oc)

\* the body of a buffer that has the tag and a time tag
BodyOf(data) == Drop(data, 16)

IsBundleBuffer(data) == Len(data) >= 16 /\ Len(data) % 4 = 0 /\ Buffer_is_bundle(data)

\* C17: a bundle with a block whose declared size is beyond the bytes that
\* remain, or that is no packet, decodes to the invalid-buffer error
C17_MalformedBundle ==
    (/\ op = "decode"
     /\ result.input[1] = "Bundle"
     /\ IsBundleBuffer(result.input[2])
     /\ ~BodyIsSound(BodyOf(result.input[2]), overflow_checks))
        => (~panicked /\ result.value = Err(InvalidBuffer))

\* the bytes a read took from the front of the buffer
Consumed(data, left) == Len(data) - Len(left)

\* the declared content length rounded up to the next multiple of 4
RoundUp4(n) == ((n + 3) \div 4) * 4

DeclaredSize(data) == i32_from_be_bytes(SubSeq(data, 1, 4))

IsBlockRead(method) == method \in {"get_next_byte_block", "get_next_block"}

\* C18: a block read that succeeds takes 4 bytes and the declared length
\* rounded up to a multiple of 4, and leaves an aligned buffer aligned
C18_BlockConsumption ==
    (/\ op = "Buffer::read"
     /\ IsBlockRead(result.input[1])
     /\ result.value.res.tag = "Ok")
        => /\ Consumed(result.input[2], result.value.data)
                = 4 + RoundUp4(DeclaredSize(result.input[2]))
           /\ result.value.data
                = Drop(result.input[2], 4 + RoundUp4(DeclaredSize(result.input[2])))
           /\ (~IsMisaligned(result.input[2]) => ~IsMisaligned(result.value.data))

(***************************************************************************)
(* Encoding called on its own: Buffer::try_from(Message, Bundle or Packet) *)
(***************************************************************************)
Encode(form, value, limit) ==
    PureResult("encode", <<form, value>>, EncodeAs(form, value), limit)

\* messages that are not valid: no address, an address with a character
\* outside ASCII, an Unknown argument first, last, between others and alone
RefusedMessages ==
    { Message("", <<>>),
      Message("", <<TInteger(1)>>),
      Message("/hé", <<TInteger(1)>>),
      Message("é", <<>>),
      Message("/hello", <<TUnknown>>),
      Message("/hello", <<TUnknown, TInteger(1)>>),
      Message("/hello", <<TInteger(1), TUnknown>>),
      Message("/hello", <<TString("a"), TUnknown, TFloat(625)>>),
      MessageOf("/hello", <<TUnknown>>, TRUE) }

\* Bundle::add of the packets, on a bundle of time 0
Holding(packets) == Bundle(TimeTag(0, 0), packets)

DeepRefused == Holding(<<PBundle(Holding(<<PMessage(Hello23),
                                           PBundle(Holding(<<PMessage(Message("/hello", <<TUnknown>>))>>))>>))>>)

\* bundles that hold a refused message: alone, first, last, in the middle,
\* one, two and three bundles deep
RefusedBundles ==
    {Holding(<<PMessage(m)>>) : m \in RefusedMessages}
        \cup {Holding(<<PMessage(Hello23), PMessage(m)>>) : m \in RefusedMessages}
        \cup {Holding(<<PMessage(m), PMessage(Hello23)>>) : m \in RefusedMessages}
        \cup {Holding(<<PBundle(Inner), PMessage(m), PMessage(Hello23)>>) : m \in RefusedMessages}
        \cup {Holding(<<PMessage(Hello23), PBundle(Holding(<<PMessage(m)>>))>>) : m \in RefusedMessages}
        \cup {DeepRefused}

EncodeInputs ==
    {<<"Message", v>> : v \in RefusedMessages \cup CodecMessages}
        \cup {<<"Bundle", v>> : v \in RefusedBundles \cup CodecBundles}
        \cup {<<"Packet", PMessage(v)>> : v \in RefusedMessages}
        \cup {<<"Packet", PBundle(v)>> : v \in RefusedBundles}

\* the message has no address, an address that is not ASCII or an Unknown argument
IsRefused(m) ==
    \/ m.address = ""
    \/ \E i \in 1..Len(m.address) : ~IsAsciiChar(CharAt(m.address, i))
    \/ \E i \in 1..Len(m.args) : m.args[i] = TUnknown

RECURSIVE HoldsRefused(_)
\* a packet that is a refused message or holds one, at any position and depth
BundleHoldsRefused(b) == \E i \in 1..Len(b.messages) : HoldsRefused(b.messages[i])
HoldsRefused(p) == IF p.kind = "Message" THEN IsRefused(p.v) ELSE BundleHoldsRefused(p.v)

ValueHoldsRefused(form, value) ==
    CASE form = "Message" -> IsRefused(value)
      [] form = "Bundle" -> BundleHoldsRefused(value)
      [] OTHER -> HoldsRefused(value)

\* C19: encoding a message with an empty or non-ASCII address or an Unknown
\* argument, or a bundle that holds one at any position and depth, fails
\* with the invalid-message error
C19_InvalidMessageRefused ==
    (op = "encode" /\ ValueHoldsRefused(result.input[1], result.input[2]))
        => result.value = Err(InvalidMessage)

\* a bundle three deep whose innermost message has an Unknown argument was
\* refused
C19_DeepRefused ==
    /\ op = "encode"
    /\ result.input = <<"Packet", PBundle(DeepRefused)>>
    /\ result.value = Err(InvalidMessage)

\* the address /a, the type-tag string of the tags, and the bytes after it
Tagged(tags, payload) ==
    padded_string_buffer("/a") \o padded_string_buffer("," \o tags) \o payload

One == i32_to_be_bytes(1)

\* message buffers: every tag with its bytes, with bytes missing, a tag
\* that is not known first, last and between others, strings that do not
\* end or are no text, blobs whose size is beyond the bytes, negative or
\* maximal, a type-tag string that does not end
MessageBuffers ==
    { Tagged("", <<>>),
      Tagged("i", One),
      Tagged("i", <<>>),
      Tagged("ii", One),
      Tagged("ii", One \o One),
      Tagged("i", One \o One),
      Tagged("x", <<>>),
      Tagged("x", One),
      Tagged("ix", One),
      Tagged("xi", One),
      Tagged("ixi", One \o One),
      Tagged("TFNI", <<>>),
      Tagged("TiF", One),
      Tagged("f", <<63, 128, 0, 0>>),
      Tagged("f", <<>>),
      Tagged("h", One),
      Tagged("h", One \o One),
      Tagged("dt", One \o One \o One),
      Tagged("c", <<0, 0, 0, 97>>),
      Tagged("c", <<0, 17, 0, 0>>),
      Tagged("r", <<1, 2, 3, 4>>),
      Tagged("s", <<>>),
      Tagged("s", <<104, 105, 0, 0>>),
      Tagged("s", <<104, 105, 106, 107>>),
      Tagged("s", <<104, 200, 0, 0>>),
      Tagged("si", <<104, 105, 0, 0>>),
      Tagged("b", Sized(0, <<>>)),
      Tagged("b", Sized(3, <<1, 2, 3, 0>>)),
      Tagged("b", Sized(3, <<>>)),
      Tagged("b", Sized(8, <<1, 2, 3, 4>>)),
      Tagged("b", <<>>),
      Tagged("bi", Sized(4, <<1, 2, 3, 4>>) \o One),
      Tagged("b", Sized(-1, <<>>)),
      Tagged("b", Sized(-1, <<1, 2, 3, 4>>)),
      Tagged("b", Sized(-4, <<1, 2, 3, 4>>)),
      Tagged("b", Sized(-5, <<1, 2, 3, 4>>)),
      Tagged("b", Sized(-2147483647 - 1, <<1, 2, 3, 4>>)),
      Tagged("b", Sized(2147483647, <<1, 2, 3, 4>>)),
      Tagged("ib", One \o Sized(-2, <<>>)),
      padded_string_buffer("/a") \o <<44, 105, 105, 105>>,
      padded_string_buffer("/a") \o <<44, 105, 105, 105>> \o One \o One \o One }

RecognizedTags == {"i", "f", "c", "r", "h", "d", "t", "T", "F", "N", "I", "s", "b"}

\* the characters of the bytes up to the first NUL or the end
RECURSIVE TagRun(_)
TagRun(bytes) ==
    IF Len(bytes) = 0 \/ Head(bytes) = 0 THEN <<>>
    ELSE <<Chr(Head(bytes))>> \o TagRun(Tail(bytes))

\* the bytes after the address start a type-tag string
StartsTags(address, rest) == address.tag = "Ok" /\ Len(rest) > 0 /\ rest[1] = 44

\* what the claim allows as the answer r to the declared tags
TagsAnswered(tags, r) ==
    /\ r.tag # "Panic"
    /\ r.tag = "Ok" => Message_type_list(r.val.args) = tags
    /\ r.tag = "Err" => r.err = InvalidTypesForMessage
    /\ (\E i \in 1..Len(tags) : tags[i] \notin RecognizedTags) => r.tag = "Err"

\* a is the read of the address from the buffer that was decoded
DeclaredAnswered(a, r) ==
    StartsTags(a.res, a.data) => TagsAnswered(TagRun(Tail(a.data)), r)

\* C20: a message decodes only if every declared tag decoded to a value, in
\* order; otherwise the decode fails with the type-mismatch error
C20_DeclaredTagsDecoded ==
    (op = "decode" /\ result.input[1] = "Message")
        => DeclaredAnswered(Buffer_get_string(result.input[2]), result.value)

(***************************************************************************)
(* The conversion of the bytes of one value, called on its own             *)
(***************************************************************************)
DecodeValue(bytes, flag, limit) ==
    PureResult("Type::try_from", <<bytes, flag>>,
               Type_try_from(bytes, flag, overflow_checks), limit)

\* inputs of 0 to 12 bytes
ValueBytes ==
    { <<>>, <<0>>, <<0, 0>>, <<1, 2, 3>>, <<0, 0, 0, 97>>, <<63, 128, 0, 0>>,
      <<0, 17, 0, 0>>, <<1, 2, 3, 4, 5>>, <<1, 2, 3, 4, 5, 6>>, <<1, 2, 3, 4, 5, 6, 7>>,
      <<0, 0, 0, 0, 0, 0, 0, 1>>, <<104, 105, 0, 0, 1, 2, 3, 4>>,
      <<1, 2, 3, 4, 5, 6, 7, 8, 9>>, <<0, 0, 0, 1, 0, 0, 0, 2, 0, 0, 0, 3>> }

ZeroTags == {"T", "F", "N", "I"}

\* tags that are no tag of the decoder
UnknownFlags == {"x", "a", "S", "?"}

ValueFlags == FixedTags \cup ZeroTags \cup UnknownFlags

\* the width in bytes of a fixed-width tag
TagWidth(flag) == IF flag \in {"i", "f", "c", "r"} THEN 4 ELSE 8

\* what the claim says of the answer r to n bytes under the tag
ValueAnswered(n, flag, r) ==
    /\ flag \in FixedTags =>
          /\ r.tag = "Ok" => n = TagWidth(flag)
          /\ n % 4 # 0 => r = Err("Packet(NotFourByte)")
          /\ (n % 4 = 0 /\ n # TagWidth(flag)) => r = Err("Packet(Underrun)")
    /\ flag \in ZeroTags => (r.tag = "Ok" => n = 0)
    /\ (flag \in UnknownFlags /\ n % 4 = 0) => r = Err("OSC(InvalidTypeFlag)")

\* C21: a fixed-width tag decodes only from exactly its width, a zero-width
\* tag only from no bytes; a misaligned length is the alignment error, any
\* other wrong length the underrun error; a tag that is not known is the
\* unknown-type-flag error on every aligned input
C21_ValueWidth ==
    op = "Type::try_from"
        => ValueAnswered(Len(result.input[1]), result.input[2], result.value)

(***************************************************************************)
(* Lengths of encodings                                                    *)
(***************************************************************************)
LengthAddresses == {"/", "/a", "/ab", "/abc", "/abcd", "/abcdefg", "/abcdefgh"}
LengthStrings == {"", "a", "ab", "abc", "abcd", "abcde", "abcdefgh"}
LengthBlobs == {<<>>, <<1>>, <<1, 2>>, <<1, 2, 3>>, <<1, 2, 3, 4>>, <<1, 2, 3, 4, 5>>}

\* n Integer arguments
Integers(n) == [i \in 1..n |-> TInteger(i)]

\* messages of every address length with strings of every length, blobs
\* of every length, and 0 to 5 arguments
LengthMessages ==
    {Message(a, <<TString(s)>>) : a \in LengthAddresses, s \in LengthStrings}
        \cup {Message("/b", <<TBlob(b), TString("x")>>) : b \in LengthBlobs}
        \cup {Message("/n", Integers(n)) : n \in 0..5}
        \cup {MessageOf(a, <<>>, TRUE) : a \in LengthAddresses}

\* bundles of messages of different lengths, one and two deep
LengthBundles ==
    {Holding(<<PMessage(Message("/ab", <<TString(s)>>)),
               PBundle(Holding(<<PMessage(Message("/b", <<TBlob(b)>>))>>))>>) :
        s \in {"", "abc", "abcd"}, b \in {<<>>, <<1>>, <<1, 2, 3, 4, 5>>}}

LengthInputs ==
    {<<"Message", v>> : v \in LengthMessages}
        \cup {<<"Packet", PMessage(v)>> : v \in {Message("/abc", <<TString("")>>)}}
        \cup {<<"Bundle", v>> : v \in LengthBundles}

\* the bytes of a text and its NULs: the next multiple of 4 above its length
PaddedLength(n) == 4 * ((n \div 4) + 1)

\* the bytes of one argument
ArgumentLength(a) ==
    CASE a.t \in {"Integer", "Float", "Char", "Color"} -> 4
      [] a.t \in {"LongInteger", "Double", "TimeTag"} -> 8
      [] a.t = "String" -> PaddedLength(Len(a.str))
      [] a.t = "Blob" -> 4 + 4 * ((Len(a.blob) + 3) \div 4)
      [] a.t = "TypeList" -> IF Len(a.list) = 0 THEN 0 ELSE PaddedLength(1 + Len(a.list))
      [] OTHER -> 0

RECURSIVE ArgumentsLength(_)
ArgumentsLength(args) ==
    IF Len(args) = 0 THEN 0 ELSE ArgumentLength(Head(args)) + ArgumentsLength(Tail(args))

\* address, type-tag string (none without arguments unless forced), arguments
MessageLength(m) ==
    PaddedLength(Len(m.address))
        + (IF Len(m.args) > 0 THEN PaddedLength(1 + Len(m.args))
           ELSE IF m.force_empty_args THEN 4 ELSE 0)
        + ArgumentsLength(m.args)

\* C22: the buffer of every encode that succeeds has a length that is a
\* multiple of 4; a text gains at least one NUL, so the buffer of a message
\* has the length of its padded parts
C22_EncodedAligned ==
    (op = "encode" /\ result.value.tag = "Ok")
        => /\ Len(result.value.val) % 4 = 0
           /\ result.input[1] = "Message"
                 => Len(result.value.val) = MessageLength(result.input[2])

\* a message with an empty string was encoded: 8 bytes of address, 4 of
\* tags and 4 for the string
C22_EmptyStringEncoded ==
    /\ op = "encode"
    /\ result.input = <<"Message", Message("/abc", <<TString("")>>)>>
    /\ result.value.tag = "Ok"
    /\ Len(result.value.val) = 16

(***************************************************************************)
(* Length of an encoded bundle                                             *)
(***************************************************************************)
\* the bundles of tests/osc_bundles.rs and bundles of messages of other
\* lengths
SizedBundles ==
    {Holding(<<>>),
     Holding(<<PMessage(Hello23)>>),
     Holding(<<PMessage(Hello23), PMessage(Hello23)>>),
     Holding(<<PMessage(Hello23), PBundle(Holding(<<PMessage(Hello23)>>))>>),
     Holding(<<PBundle(Holding(<<>>)), PMessage(Message("/a", <<>>)),
               PMessage(Message("/abcdefgh", <<TString("abcd"), TBlob(<<1>>)>>))>>)}

SizedInputs ==
    {<<"Bundle", v>> : v \in SizedBundles} \cup {<<"Packet", PBundle(v)>> : v \in SizedBundles}

RECURSIVE PacketLength(_)
RECURSIVE PacketsLength(_)

\* 4 bytes of size and the packet, for every packet
PacketsLength(packets) ==
    IF Len(packets) = 0 THEN 0
    ELSE 4 + PacketLength(Head(packets)) + PacketsLength(Tail(packets))

\* 8 bytes of tag and 8 of time, then the packets
PacketLength(p) ==
    IF p.kind = "Message" THEN MessageLength(p.v) ELSE 16 + PacketsLength(p.v.messages)

\* every packet of the list stands in the bytes behind a size equal to its
\* encoded length
RECURSIVE PrefixesStand(_, _)
PrefixesStand(bytes, packets) ==
    IF Len(packets) = 0 THEN Len(bytes) = 0
    ELSE /\ Len(bytes) >= 4 + PacketLength(Head(packets))
         /\ i32_from_be_bytes(SubSeq(bytes, 1, 4)) = PacketLength(Head(packets))
         /\ Ok(SubSeq(bytes, 5, 4 + PacketLength(Head(packets)))) = Packet_into_Buffer(Head(packets))
         /\ PrefixesStand(Drop(bytes, 4 + PacketLength(Head(packets))), Tail(packets))

BundleEncoded(value, bytes) ==
    /\ Len(bytes) = 16 + PacketsLength(value.messages)
    /\ PrefixesStand(Drop(bytes, 16), value.messages)

TestedLength(value) ==
    CASE value = Holding(<<>>) -> 16
      [] value = Holding(<<PMessage(Hello23)>>) -> 36
      [] value = Holding(<<PMessage(Hello23), PMessage(Hello23)>>) -> 56
      [] value = Holding(<<PMessage(Hello23), PBundle(Holding(<<PMessage(Hello23)>>))>>) -> 76
      [] OTHER -> 16 + PacketsLength(value.messages)

\* C23: the buffer of an encoded bundle is 16 bytes and, for every packet
\* it holds, a 4-byte size equal to the packet's encoded length followed by
\* the packet's bytes: 16, 36, 56 and 76 bytes for the bundles of the tests
C23_BundleLength ==
    (op = "encode" /\ result.value.tag = "Ok" /\ result.input[1] \in {"Bundle", "Packet"})
        => LET value == IF result.input[1] = "Bundle" THEN PBundle(result.input[2])
                        ELSE result.input[2]
           IN  value.kind = "Bundle"
                  => /\ BundleEncoded(value.v, result.value.val)
                     /\ Len(result.value.val) = TestedLength(value.v)

\* the bundle of a message and a bundle of a message was encoded: 76 bytes
C23_NestedEncoded ==
    /\ op = "encode"
    /\ result.input = <<"Bundle", Holding(<<PMessage(Hello23), PBundle(Holding(<<PMessage(Hello23)>>))>>)>>
    /\ result.value.tag = "Ok"
    /\ Len(result.value.val) = 76

(***************************************************************************)
(* Requests to the console                                                 *)
(***************************************************************************)
ConsoleRequest(kind, v) == [kind |-> kind, v |-> v]

\* {v} of a u8
U8Text(v) ==
    IF v < 10 THEN DigitChar(v)
    ELSE IF v < 100 THEN TwoDigits(v)
    ELSE DigitChar(v \div 100) \o TwoDigits(v % 100)

\* {v:02} of a u8
U8Text02(v) == IF v < 10 THEN "0" \o DigitChar(v) ELSE U8Text(v)

\* Message::new(address).try_into().unwrap_or_default()
new_message_buffer(address) ==
    LET r == Message_into_Buffer(Message(address, <<>>))
    IN  IF r.tag = "Ok" THEN r.val ELSE <<>>

new_node_buffer(s) ==
    LET r == Message_into_Buffer(Message("/node", <<TString(s)>>))
    IN  IF r.tag = "Ok" THEN r.val ELSE <<>>

\* From<ConsoleRequest> for Vec<Buffer>
ConsoleRequest_into(value) ==
    CASE value.kind = "Bus" ->
            <<new_node_buffer("bus/" \o U8Text02(value.v) \o "/mix"),
              new_node_buffer("bus/" \o U8Text02(value.v) \o "/config")>>
      [] value.kind = "Dca" ->
            <<new_node_buffer("dca/" \o U8Text(value.v) \o "/"),
              new_node_buffer("dca/" \o U8Text(value.v) \o "/config")>>
      [] value.kind = "Channel" ->
            <<new_node_buffer("ch/" \o U8Text02(value.v) \o "/mix"),
              new_node_buffer("ch/" \o U8Text02(value.v) \o "/config")>>
      [] value.kind = "Aux" ->
            <<new_node_buffer("auxin/" \o U8Text02(value.v) \o "/mix"),
              new_node_buffer("auxin/" \o U8Text02(value.v) \o "/config")>>
      [] value.kind = "Matrix" ->
            <<new_node_buffer("mtx/" \o U8Text02(value.v) \o "/mix"),
              new_node_buffer("mtx/" \o U8Text02(value.v) \o "/config")>>
      [] value.kind = "ShowInfo" -> <<new_message_buffer("/showdata")>>
      [] value.kind = "ShowMode" -> <<new_node_buffer("-prefs/show_control")>>
      [] value.kind = "CurrentCue" -> <<new_node_buffer("-show/prepos/current")>>
      [] value.kind = "KeepAlive" -> <<new_message_buffer("/xremote")>>
      [] value.kind = "Main" ->
            <<new_node_buffer("main/" \o (IF value.v = 1 THEN "st" ELSE "m") \o "/mix"),
              new_node_buffer("main/" \o (IF value.v = 1 THEN "st" ELSE "m") \o "/config")>>

\* (from..=to).flat_map(kind).collect()
RECURSIVE flat_map(_, _, _)
flat_map(kind, from, to) ==
    IF from > to THEN <<>>
    ELSE ConsoleRequest_into(ConsoleRequest(kind, from)) \o flat_map(kind, from + 1, to)

\* ConsoleRequest::full_update
full_update ==
    ConsoleRequest_into(ConsoleRequest("ShowInfo", 0))
        \o ConsoleRequest_into(ConsoleRequest("ShowMode", 0))
        \o ConsoleRequest_into(ConsoleRequest("CurrentCue", 0))
        \o ConsoleRequest_into(ConsoleRequest("Main", 1))
        \o ConsoleRequest_into(ConsoleRequest("Main", 2))
        \o flat_map("Aux", 1, 6)
        \o flat_map("Matrix", 1, 6)
        \o flat_map("Bus", 1, 16)
        \o flat_map("Dca", 1, 8)
        \o flat_map("Channel", 1, 32)

FullUpdate(limit) ==
    PureResult("ConsoleRequest::full_update", <<>>, Ok(full_update), limit)

Request(value, limit) ==
    PureResult("ConsoleRequest::into", value, Ok(ConsoleRequest_into(value)), limit)

RequestKinds == {"Bus", "Dca", "Channel", "Aux", "Matrix", "Main"}
RequestInputs ==
    {ConsoleRequest(k, v) : k \in RequestKinds, v \in {0, 1, 2, 8, 9, 10, 32, 100, 255}}
        \cup {ConsoleRequest(k, 0) : k \in {"ShowInfo", "ShowMode", "CurrentCue", "KeepAlive"}}

\* the two requests of every fader of a bank, first to last
RECURSIVE BankRequests(_, _, _)
BankRequests(kind, from, to) ==
    IF from > to THEN <<>>
    ELSE ConsoleRequest_into(ConsoleRequest(kind, from)) \o BankRequests(kind, from + 1, to)

\* show info, show mode, current cue, main 1 and 2, then every aux, matrix,
\* bus, dca and channel of the console
StatedUpdate ==
    ConsoleRequest_into(ConsoleRequest("ShowInfo", 0))
        \o ConsoleRequest_into(ConsoleRequest("ShowMode", 0))
        \o ConsoleRequest_into(ConsoleRequest("CurrentCue", 0))
        \o BankRequests("Main", 1, MainCap)
        \o BankRequests("Aux", 1, AuxCap)
        \o BankRequests("Matrix", 1, MatrixCap)
        \o BankRequests("Bus", 1, BusCap)
        \o BankRequests("Dca", 1, DcaCap)
        \o BankRequests("Channel", 1, ChannelCap)

StatedUpdateCount == 3 + 2 * (MainCap + AuxCap + MatrixCap + BusCap + DcaCap + ChannelCap)

\* C24: full_update returns the 147 request buffers of show info, show
\* mode, current cue and the mix and config requests of main 1 and 2, aux
\* 1 to 8, matrix 1 to 6, bus 1 to 16, dca 1 to 8 and channel 1 to 32
C24_FullUpdate ==
    op = "ConsoleRequest::full_update"
        => /\ Len(result.value.val) = StatedUpdateCount
           /\ result.value.val = StatedUpdate

(***************************************************************************)
(* Fader level to text                                                     *)
(***************************************************************************)
\* the match on v of Fader::level_to_string, in thousandths of a decibel;
\* v in ten-thousandths
Fader_level_c_value(v) ==
    IF v >= 5000 THEN 4 * v - 30000
    ELSE IF v >= 2500 THEN 8 * v - 50000
    ELSE IF v >= 625 THEN 16 * v - 70000
    ELSE 48 * v - 90000

\* {c_value:.1} without its sign: tenths of a decibel, nearest
Fader_level_tenths(c) == ((IF c < 0 THEN 0 - c ELSE c) + 50) \div 100

TenthsText(t) == U8Text(t \div 10) \o "." \o DigitChar(t % 10)

\* the match on c_value of Fader::level_to_string
Fader_level_text(c) ==
    IF c >= -50 /\ c <= 50 THEN "+0.0 dB"
    ELSE IF c <= -89900 THEN "-oo dB"
    ELSE IF c < 0 THEN "-" \o TenthsText(Fader_level_tenths(c)) \o " dB"
    ELSE "+" \o TenthsText(Fader_level_tenths(c)) \o " dB"

Fader_level_to_string(v) == Fader_level_text(Fader_level_c_value(v))

LevelToString(v, limit) ==
    PureResult("Fader::level_to_string", v, Ok(Fader_level_to_string(v)), limit)

LevelFromString(input, limit) ==
    PureResult("Fader::level_from_string", input, Ok(Fader_level_from_string(input)), limit)

\* level_to_string(level_from_string(input))
LevelRoundTrip(input, limit) ==
    PureResult("Fader::level_round_trip", input,
               Ok(Fader_level_to_string(Fader_level_from_string(input))), limit)

\* the pairs of check_level_conversion, levels in ten-thousandths
KnownValues ==
    {<<0, "-oo dB">>, <<10, "-89.5 dB">>, <<196, "-80.6 dB">>, <<411, "-70.3 dB">>,
     <<518, "-65.1 dB">>, <<616, "-60.4 dB">>, <<899, "-55.6 dB">>, <<1232, "-50.3 dB">>,
     <<1505, "-45.9 dB">>, <<1867, "-40.1 dB">>, <<2141, "-35.7 dB">>, <<2454, "-30.7 dB">>,
     <<3060, "-25.5 dB">>, <<3734, "-20.1 dB">>, <<4301, "-15.6 dB">>, <<4946, "-10.4 dB">>,
     <<6197, "-5.2 dB">>, <<7478, "-0.1 dB">>, <<7498, "+0.0 dB">>, <<7527, "+0.1 dB">>,
     <<7752, "+1.0 dB">>, <<7996, "+2.0 dB">>, <<8250, "+3.0 dB">>, <<8495, "+4.0 dB">>,
     <<8749, "+5.0 dB">>, <<9003, "+6.0 dB">>, <<9746, "+9.0 dB">>, <<10000, "+10.0 dB">>}

\* the text of t tenths of a decibel as level_to_string writes it
DisplayText(t) ==
    IF t = 0 THEN "+0.0 dB"
    ELSE IF t < 0 THEN "-" \o TenthsText(0 - t) \o " dB"
    ELSE "+" \o TenthsText(t) \o " dB"

\* tenths from -89.8 dB to +10.0 dB: all near the ends, around 0 and around
\* the borders of the four ranges, one in seven elsewhere
DisplayTenths ==
    {t \in -898..100 :
        \/ t < -880 \/ t > 95 \/ (t >= -5 /\ t <= 5)
        \/ \E b \in {-600, -300, -100} : t >= b - 3 /\ t <= b + 3
        \/ t % 7 = 0}

DisplayStrings ==
    {DisplayText(t) : t \in DisplayTenths} \cup {"-oo dB"} \cup {p[2] : p \in KnownValues}

LevelInputs == {0, 1, 2, 3, 624, 625, 2499, 2500, 4999, 5000, 7487, 7488, 7512, 7513}
                  \cup {p[1] : p \in KnownValues}

\* C25: turning a display string into a level and back gives the string
\* again, and each pair of the documented table is reproduced in both
\* directions
C25_LevelRoundTrip ==
    /\ op = "Fader::level_round_trip" => result.value.val = result.input
    /\ op = "Fader::level_from_string"
          => \A p \in KnownValues : result.input = p[2] => result.value.val = p[1]
    /\ op = "Fader::level_to_string"
          => \A p \in KnownValues : result.input = p[1] => result.value.val = p[2]

(***************************************************************************)
(* Order of updates                                                        *)
(***************************************************************************)
\* updates the console accepts: two that set the same field of the same
\* fader, two for the same cue slot and scene slot, and updates of other
\* fields, faders and slots
OrderFaderUpdates ==
    { FaderUpdate(FaderIndex("Channel", 1), Some("Vox"), None, None, None),
      FaderUpdate(FaderIndex("Channel", 1), Some("Gtr"), Some(5000), None, None),
      FaderUpdate(FaderIndex("Channel", 1), None, Some(7500), None, None),
      FaderUpdate(FaderIndex("Channel", 2), Some("Vox"), None, None, None),
      FaderUpdate(FaderIndex("Dca", 3), None, None, Some(TRUE), Some("Red")) }

OrderCues ==
    { MsgCue(0, "1.0.0", "First", Some(0), Some(1)),
      MsgCue(0, "2.0.0", "Second", None, Some(1)) }
OrderScenes == { MsgScene(1, "SceneAAA"), MsgScene(1, "SceneBBB") }
OrderSnippets == { MsgSnippet(0, "Snip-001") }

OrderUpdates ==
    { MsgFader(u) : u \in OrderFaderUpdates } \cup OrderCues \cup OrderScenes
        \cup OrderSnippets \cup { MsgCurrentCue(0), MsgShowMode("Scenes") }

FaderFields == {"label", "level", "is_on", "color"}

\* what an update writes: fields of one fader, one slot of a list, the
\* pointer or the mode
Writes(u) ==
    CASE u.kind = "Fader" ->
            {<<"fader", BankFieldOf(u.fader.source.cat), u.fader.source.pos - 1, f>> :
                f \in {g \in FaderFields : IsSome(u.fader[g])}}
      [] u.kind = "Cue" -> {<<"cues", u.index>>}
      [] u.kind = "Scene" -> {<<"scenes", u.index>>}
      [] u.kind = "Snippet" -> {<<"snippets", u.index>>}
      [] u.kind = "CurrentCue" -> {<<"current_cue">>}
      [] u.kind = "ShowMode" -> {<<"show_mode">>}
      [] OTHER -> {}

\* the value an update carries for a place it writes
Carried(u, place) ==
    CASE u.kind = "Fader" -> Unwrap(u.fader[place[4]])
      [] u.kind = "Cue" -> Some(ShowCue(u.cue_number, u.name, u.snippet, u.scene))
      [] u.kind \in {"Scene", "Snippet"} -> Some(u.name)
      [] u.kind = "CurrentCue" -> IF u.cur < 0 THEN None ELSE Some(u.cur)
      [] u.kind = "ShowMode" -> u.mode

ValueAt(self, place) ==
    CASE place[1] = "fader" -> self.faders[place[2]][place[3]][place[4]]
      [] place[1] \in {"cues", "scenes", "snippets"} -> self[place[1]][place[2]]
      [] place[1] = "current_cue" -> self.current_cue
      [] place[1] = "show_mode" -> self.show_mode

\* every place an update of the model writes, and places none writes
Places ==
    UNION {Writes(u) : u \in OrderUpdates}
        \cup {<<"fader", "channel", 2, f>> : f \in FaderFields}
        \cup {<<"fader", "channel", 0, "color">>, <<"cues", 2>>, <<"scenes", 0>>,
              <<"snippets", 1>>}

\* the console after the updates of a list, in order
RECURSIVE After(_, _)
After(self, updates) ==
    IF Len(updates) = 0 THEN self
    ELSE After(X32Console_update(self, Head(updates), overflow_checks).self, Tail(updates))

\* the value of the last of two updates that writes the place, or the
\* value of before
LastWritten(before, first, second, place) ==
    IF place \in Writes(second) THEN Carried(second, place)
    ELSE IF place \in Writes(first) THEN Carried(first, place)
    ELSE ValueAt(before, place)

\* after holds at every place the value of the last update that writes it
LastWriterWinsIn(after, before, first, second) ==
    \A place \in Places : ValueAt(after, place) = LastWritten(before, first, second, place)

LastWriterWins(before, first, second) ==
    LastWriterWinsIn(After(before, <<first, second>>), before, first, second)

Commute(before, first, second) ==
    Writes(first) \cap Writes(second) = {}
        => After(before, <<first, second>>) = After(before, <<second, first>>)

\* the six orders of a cue, a scene and a snippet
SelectionOrders(a, b, c) ==
    {<<a, b, c>>, <<a, c, b>>, <<b, a, c>>, <<b, c, a>>, <<c, a, b>>, <<c, b, a>>}

\* the selection is the expected one after every order
SelectionIs(expected, before, orders) ==
    \A x \in orders : active_cue(After(before, x)) = expected

SameSelection(before, a, b, c) ==
    SelectionIs(active_cue(After(before, <<a, b, c>>)), before, SelectionOrders(a, b, c))

\* no update has been made since construction or the last reset
Fresh(self) ==
    /\ \A k \in BankFields : \A i \in DOMAIN self.faders[k] :
          self.faders[k][i] = Fader_new(self.faders[k][i].source)
    /\ \A i \in DOMAIN self.cues : self.cues[i] = None
    /\ \A i \in DOMAIN self.scenes : self.scenes[i] = None
    /\ \A i \in DOMAIN self.snippets : self.snippets[i] = None

\* C26: the last writer wins: at every state, after two more accepted
\* updates every field of every fader and every slot holds the value of the
\* later update that writes it, else of the earlier, else what it held; it
\* holds the default after construction and after a reset; updates that
\* write different places commute; the active selection is the same for
\* every order of arrival of a cue and the scene and snippet it links to
C26_LastWriterWins ==
    /\ op \in {"new", "reset"} => Fresh(Self)
    /\ \A first \in OrderUpdates, second \in OrderUpdates :
          /\ LastWriterWins(Self, first, second)
          /\ Commute(Self, first, second)
    /\ \A cue \in OrderCues, scene \in OrderScenes, snippet \in OrderSnippets :
          SameSelection(Self, cue, scene, snippet)

\* the level of channel 1 was set twice and holds the later value, next to
\* the label of the earlier update
C26_LevelOverwritten ==
    /\ steps = 2
    /\ ~panicked
    /\ faders.channel[0].label = "Gtr"
    /\ faders.channel[0].level = 7500

(***************************************************************************)
(* Progress of the bundle decoder                                          *)
(***************************************************************************)
\* a read of one block gave an error, or gave a block shorter than the
\* buffer and left at least 4 bytes fewer
BlockReadAdvances(data, r) ==
    \/ r.res.tag = "Err"
    \/ /\ r.res.tag = "Ok"
       /\ Len(r.data) + 4 <= Len(data)
       /\ Len(r.res.val) < Len(data)

\* C27: decoding a bundle ends with a bundle or an error: every read of a
\* block returns an error or removes at least 4 bytes and hands a strictly
\* shorter buffer to the nested decode
C27_BundleDecodeEnds ==
    /\ (op = "Buffer::read" /\ result.input[1] = "get_next_block")
          => BlockReadAdvances(result.input[2], result.value)
    /\ (op = "decode" /\ result.input[1] \in {"Bundle", "Packet"})
          => result.value.tag \in {"Ok", "Err"}

(***************************************************************************)
(* Bundles handed to X32Console::process                                   *)
(***************************************************************************)
\* messages that change the console when they are processed on their own
Current0 == Message("/-show/prepos/current", <<TInteger(0)>>)
ChannelOn == Message("/ch/01/mix/on", <<TInteger(1)>>)
ScenesMode == NodeMsg("/-prefs/show_control SCENES")

\* time tags whose first bytes read as a type-tag string: ",i" and ",b"
TimeTagInteger == <<44, 105, 0, 0, 0, 0, 0, 7>>
TimeTagBlob == <<44, 98, 0, 0, 0, 0, 0, 4>>
TimeTagBlobNegative == <<44, 98, 0, 0, 255, 255, 255, 255>>

\* encoded bundles: empty, of one, two and nested messages, and with time
\* tags of every kind
ReceivedBundles ==
    {Encoded(PBundle(b)) : b \in
        {Holding(<<>>),
         Holding(<<PMessage(Current0)>>),
         Holding(<<PMessage(ChannelOn), PMessage(ScenesMode)>>),
         Holding(<<PBundle(Holding(<<PMessage(Current0)>>)), PMessage(ChannelOn)>>),
         Bundle(TimeTag(0, 1), <<PMessage(ScenesMode)>>),
         Bundle(TimeTagInteger, <<PMessage(Current0)>>),
         Bundle(TimeTagBlob, <<PMessage(Current0)>>),
         Bundle(TimeTagBlobNegative, <<PMessage(Current0)>>)}}

\* the messages of the bundles, each in a buffer of its own
ReceivedMessages == {Encoded(PMessage(m)) : m \in {Current0, ChannelOn, ScenesMode}}

\* X32Console::process of a buffer
ProcessReceived(value, limit) ==
    Call("process_buffer", process_Buffer(Self, value, overflow_checks), limit)

\* C28: process of a buffer that begins with the bundle tag returns
\* NoOperation and leaves the console as it was, whatever the bundle holds
C28_BundleNotApplied ==
    [][ \A value \in ReceivedBundles :
            ProcessReceived(value, MaxSteps)
                => /\ ~panicked'
                   /\ result' = NoOperation
                   /\ StateUnchanged ]_vars

(***************************************************************************)
(* Mode and pointer across reset and clear_cues                            *)
(***************************************************************************)
\* the text active_cue gives when nothing is selected
Placeholder(mode) ==
    CASE mode = "Cues" -> "Cue: 0.0.0 :: -- [--] [--]"
      [] mode = "Scenes" -> "Scene: --"
      [] mode = "Snippets" -> "Snippet: --"

\* the mode and the pointer are retained and nothing is selected
Retained ==
    /\ show_mode' = show_mode
    /\ current_cue' = current_cue
    /\ active_cue(Self') = Placeholder(show_mode)

\* record messages, the list and slot each one stores into, and the
\* selection once the slot is the current one
RecordMessages ==
    { <<NodeMsg("/-show/showfile/cue/000 100 \"Cue Idx0 Num100\" 1 1 0 0 1 0 0"),
        "Cues", 0, "Cue: 1.0.0 :: Cue Idx0 Num100">>,
      <<NodeMsg("/-show/showfile/scene/001 \"SceneAAA\" \"aaa\" %111111110 1"),
        "Scenes", 1, "Scene: 01:SceneAAA">>,
      <<NodeMsg("/-show/showfile/snippet/000 \"Snip-001\" 1 1 0 32768 1 "),
        "Snippets", 0, "Snippet: 00:Snip-001">> }

RetainedMessages ==
    {r[1] : r \in RecordMessages}
        \cup { NodeCurrent(0), NodeCurrent(1), NodeCurrent(-1),
               NodeMsg("/-prefs/show_control SNIPPETS"),
               NodeMsg("/-prefs/show_control SCENES"),
               Message("/-prefs/show_control", <<TInteger(0)>>) }

\* the record stored at the retained index is the selection
Selected(r) ==
    /\ current_cue' = current_cue
    /\ show_mode' = show_mode
    /\ result' = NoOperation
    /\ SubSeq(active_cue(Self'), 1, Len(r[4])) = r[4]
    /\ active_cue(Self') = SelectionText(show_mode)

\* C29: reset and clear_cues leave the mode and the pointer as they were
\* and active_cue gives the placeholder of that mode; a record stored
\* afterwards at the retained index is the active selection with no new
\* CurrentCue update
C29_ModeAndPointerRetained ==
    [][ /\ Reset(MaxSteps) => Retained
        /\ ClearCues(MaxSteps) => Retained
        /\ \A r \in RecordMessages :
              (/\ ProcessMessage(r[1], MaxSteps)
               /\ show_mode = r[2]
               /\ current_cue = Some(r[3]))
                  => Selected(r) ]_vars

\* a reset was made with the mode at Snippets and the pointer at 0
C29_ResetRetained ==
    /\ op = "reset"
    /\ steps = 3
    /\ show_mode = "Snippets"
    /\ current_cue = Some(0)
    /\ active_cue(Self) = "Snippet: --"

(***************************************************************************)
(* The buffer after a read                                                 *)
(***************************************************************************)
\* left is data without a prefix
IsSuffix(left, data) ==
    Len(left) <= Len(data) /\ left = Drop(data, Len(data) - Len(left))

\* C30: a read that returns an error leaves the buffer as it was; a read
\* that succeeds removes a prefix
C30_ErrorLeavesBuffer ==
    op = "Buffer::read"
        => /\ result.value.res.tag = "Err" => result.value.data = result.input[2]
           /\ result.value.res.tag = "Ok" => IsSuffix(result.value.data, result.input[2])

\* conversions called on their own, PureSteps calls deep
NextPure ==
    \/ \E s \in BankNames, d \in IndexInts : ResolveInteger(s, d, PureSteps)
    \/ \E s \in BankNames, d \in IndexTokens : ResolveString(s, d, PureSteps)
    \/ \E msg \in InterpretInputs : Interpret(msg, PureSteps)

SpecPure == Init /\ [][NextPure]_vars

\* buffer reads, encodings and decodings called on their own
NextCodec ==
    \/ \E i \in RoundTripInputs : RoundTrip(i[1], i[2], PureSteps)
    \/ \E method \in ReadMethods, data \in ReadBuffers, length \in ReadLengths :
            /\ (method # "get_bytes" => length = 0)
            /\ Read(method, data, length, PureSteps)
    \/ \E i \in EncodeInputs \cup LengthInputs \cup SizedInputs : Encode(i[1], i[2], PureSteps)
    \/ \E data \in BundleBuffers : \E form \in {"Bundle", "Packet"} :
            Decode(form, data, PureSteps)
    \/ \E data \in MessageBuffers : Decode("Message", data, PureSteps)
    \/ \E bytes \in ValueBytes, flag \in ValueFlags : DecodeValue(bytes, flag, PureSteps)
    \/ FullUpdate(PureSteps)
    \/ \E value \in RequestInputs : Request(value, PureSteps)

SpecCodec == Init /\ [][NextCodec]_vars

\* the conversions between a fader level and its text called on their own
NextLevel ==
    \/ \E v \in LevelInputs : LevelToString(v, PureSteps)
    \/ \E input \in DisplayStrings : LevelFromString(input, PureSteps)
    \/ \E input \in DisplayStrings : LevelRoundTrip(input, PureSteps)

SpecLevel == Init /\ [][NextLevel]_vars

\* accepted updates in every order, WideSteps calls deep
NextOrder ==
    \/ \E cm \in OrderUpdates : Update(cm, WideSteps)
    \/ Reset(WideSteps)

SpecOrder == Init /\ [][NextOrder]_vars

\* buffers received from the console, bundles and single messages
NextReceived ==
    \/ \E value \in ReceivedBundles : ProcessReceived(value, MaxSteps)
    \/ \E value \in ReceivedMessages : ProcessReceived(value, MaxSteps)

SpecReceived == Init /\ [][NextReceived]_vars

\* a show session with resets, MaxSteps calls deep
NextRetained ==
    \/ \E msg \in RetainedMessages : ProcessMessage(msg, MaxSteps)
    \/ Reset(MaxSteps)
    \/ ClearCues(MaxSteps)

SpecRetained == Init /\ [][NextRetained]_vars

====
